---- MODULE Spec2Model ----
(***************************************************************************)
(* Model of the process supervision core of cloud-gt/ai-sensors:           *)
(*   runner.Runner   (src/runner/runner.go)   one external process         *)
(*   manager.Manager (src/manager/manager.go) registry id -> Instance      *)
(* Every goroutine of the code is a process of the model.  A step is one   *)
(* critical section or one blocking operation of the source; operations    *)
(* that touch nothing another goroutine reads are joined to the step that  *)
(* follows them.                                                           *)
(***************************************************************************)
EXTENDS Integers, Sequences, FiniteSets, TLC

\* ---------------------------------------------------------------- bounds
MaxRunners == 2      \* Runner/Instance objects ever constructed by a Manager
NThreads == 2        \* client goroutines calling the Manager
NIds == 2            \* job identifiers known to the store
RThreads == 3        \* client goroutines calling one Runner directly
SThreads == 1        \* client goroutines beside a Shutdown in progress

Runners == 1..MaxRunners
Ids == 1..NIds
UnknownId == 0       \* an identifier the store does not know
NoInst == 0          \* m.instances[id] absent
Worker == 0          \* the goroutine Shutdown launches (manager.go:191)
Max(S) == CHOOSE m \in S : \A n \in S : n <= m
Threads == 1..Max({NThreads, RThreads, SThreads})
MThreads == 1..NThreads
Agents == Threads \cup {Worker}

VARIABLES
    \* runner.Runner fields (runner.go:38-49), per Runner object
    state,          \* r.state; "none" while the object is not constructed
    proc,           \* r.cmd and its OS process: "nil" (r.cmd == nil), "failed"
                    \* (r.cmd set, cmd.Process == nil), "alive", "exited"
                    \* (ended, cmd.Wait not yet back), "reaped"
    stopOnce,       \* r.stopOnce: "idle", "busy" (f running), "done"
    waitDone,       \* r.waitDone is closed
    waitErr,        \* r.waitErr
    stopped,        \* r.stopped
    \* Runner.Start's frame and the goroutines it launches
    startPc,        \* "none", "recv" (line 112), "ret" (line 121), "returned"
    wasStopped,     \* local of line 117 (FALSE again once Start has returned)
    watcher,        \* goroutine of lines 104-110: "none", "select", "done"
    doStopPc,       \* body of stopOnce.Do: "none", "lock", "grace", "done"
    ctxDone,        \* the context handed to Runner.Start is cancelled
    \* the operating system
    exitErr,        \* what cmd.Wait reports for the ended process
    sigterm,        \* kill(-pgid, SIGTERM) calls made
    sigkill,        \* kill(-pgid, SIGKILL) calls made
    \* manager.Manager (manager.go:29-42)
    instances,      \* m.instances: id -> Instance (index of its Runner) or NoInst
    status,         \* Instance.status
    owner,          \* the id captured by the background task's closure
    task,           \* background task of lines 114-122: "none", "call", "in", "done"
    callerCtxDone,  \* the context callers pass to Manager.Start is cancelled
    \* calls in progress, per calling goroutine: position, operation,
    \* identifier argument and the Instance/Runner the call works on
    pc, op, arg, inst,
    last,           \* what the call that returned last was and returned:
                    \* <<op, value, error>>
    \* Manager.Shutdown
    sdIds,          \* ids still to stop (the slice of line 184)
    \* (the frame of the call: all reset when the call returns)
    sdDone,         \* channel done is closed
    sdCtxDone,      \* Shutdown's context is done
    sdTracked,      \* the Instances that were tracked at line 185
    \* output captured under a Manager
    out,            \* per Runner: lines its process has written to its buffer
    got,            \* the snapshot the Output/OutputLastN that returned last got
    \* one buffer.RingBuffer used directly (buffer/ringbuffer.go)
    rbCap,          \* rb.capacity (0: no RingBuffer is under study)
    rbLines,        \* rb.lines, slot i of the code at index i + 1
    rbHead,         \* rb.head
    rbCount,        \* rb.count
    rbPending,      \* rb.pending
    rbStream,       \* every byte written so far, in order
    rbRet,          \* what the call on the RingBuffer that returned last returned
    \* goroutines that write to that RingBuffer at the same time
    cMu,            \* rb.mu: 0 when free, else the writer that holds it
    cPc,            \* per writer: its position in Write
    cParts,         \* per writer: parts, the local variable of Write
    cI,             \* per writer: i, the loop variable of Write
    cLeft,          \* per writer: the Write calls it has still to make
    \* the store of command definitions (command/store.go)
    commands,       \* s.commands
    stNext,         \* the identifier the next Create hands out
    stRet           \* what the call on the Store that returned last returned

runnerVars == <<state, proc, stopOnce, waitDone, waitErr, stopped, startPc,
                wasStopped, watcher, doStopPc, exitErr, sigterm, sigkill>>
mgrVars == <<instances, status, owner, task>>
callVars == <<pc, op, arg, inst, last>>
sdVars == <<sdIds, sdDone, sdCtxDone, sdTracked>>
rbVars == <<rbCap, rbLines, rbHead, rbCount, rbPending, rbStream, rbRet>>
lockVars == <<cMu, cPc, cParts, cI, cLeft>>
storeVars == <<commands, stNext, stRet>>
bufVars == <<out, got, rbVars, lockVars, storeVars>>
vars == <<runnerVars, ctxDone, mgrVars, callerCtxDone, callVars, sdVars, bufVars>>

NoCall == <<"none", "", "">>

\* ------------------------------------------------- calling goroutines
Idle(a) == pc[a] = "idle"

\* goroutine a is now at position p of operation o on identifier x, Instance r
Goto(a, o, x, r, p) ==
    /\ pc' = [pc EXCEPT ![a] = p]
    /\ op' = [op EXCEPT ![a] = o]
    /\ arg' = [arg EXCEPT ![a] = x]
    /\ inst' = [inst EXCEPT ![a] = r]
    /\ UNCHANGED last

Step(a, p) ==
    /\ pc' = [pc EXCEPT ![a] = p]
    /\ UNCHANGED <<op, arg, inst, last>>

\* the call o(x) of goroutine a returns (v, e).  The goroutine Shutdown
\* launches discards the result and goes on with its loop (manager.go:192-194).
Done(a, o, x, v, e) ==
    /\ pc' = [pc EXCEPT ![a] = IF a = Worker THEN "next" ELSE "idle"]
    /\ op' = [op EXCEPT ![a] = "none"]
    /\ arg' = [arg EXCEPT ![a] = 0]
    /\ inst' = [inst EXCEPT ![a] = NoInst]
    /\ last' = IF a = Worker THEN last ELSE <<o, v, e>>

\* ------------------------------------------------------------ Runner
\* a Start that does not look at the state
StartAlways(r) == TRUE

\* runner.go:75  if r.state != StateInitial { return ErrAlreadyStarted }
StartAllowed(r) == state[r] = "initial"

\* runner.go:80-110 with the lock held: spawn the process; on success the
\* state becomes Running and the two goroutines are launched.
SpawnLocked(r, ok) ==
    /\ StartAllowed(r)
    /\ IF ok
       THEN /\ proc' = [proc EXCEPT ![r] = "alive"]
            /\ state' = [state EXCEPT ![r] = "running"]
            /\ startPc' = [startPc EXCEPT ![r] = "recv"]
            /\ watcher' = [watcher EXCEPT ![r] = "select"]
       ELSE /\ proc' = [proc EXCEPT ![r] = "failed"]
            /\ UNCHANGED <<state, startPc, watcher>>

\* runner.go:88-94  what Runner.Start returns when cmd.Start() fails
SpawnError == "SpawnError"

\* The process ends: on its own (exit code 0 or not) at any time, or by a
\* signal once one was sent to its group.  Under a Manager the value is
\* never looked at (manager.go:115 discards what r.Start returns and nothing
\* calls Wait), so there one value stands for all three.
ExitCauses(r) ==
    IF owner[r] # UnknownId THEN {"nil"}
    ELSE {"nil", "exit"}
           \cup (IF sigterm[r] + sigkill[r] > 0 THEN {"signal"} ELSE {})

ProcExit(r) ==
    /\ proc[r] = "alive"
    /\ \E e \in ExitCauses(r) : exitErr' = [exitErr EXCEPT ![r] = e]
    /\ proc' = [proc EXCEPT ![r] = "exited"]
    /\ UNCHANGED <<state, stopOnce, waitDone, waitErr, stopped, startPc,
                   wasStopped, watcher, doStopPc, sigterm, sigkill, ctxDone,
                   mgrVars, callerCtxDone, callVars, sdVars, bufVars>>

\* runner.go:115  r.state = StateStopped
FinalState(r) == "stopped"

\* runner.go:100-102 and 112-119: cmd.Wait returns for the ended process, its
\* value goes through processDone to Start, which runs the locked epilogue
StartFinish(r) ==
    /\ startPc[r] = "recv"
    /\ proc[r] = "exited"
    /\ proc' = [proc EXCEPT ![r] = "reaped"]
    /\ state' = [state EXCEPT ![r] = FinalState(r)]
    /\ waitErr' = [waitErr EXCEPT ![r] = exitErr[r]]
    /\ exitErr' = [exitErr EXCEPT ![r] = "nil"]
    /\ wasStopped' = [wasStopped EXCEPT ![r] = stopped[r]]
    /\ waitDone' = [waitDone EXCEPT ![r] = TRUE]
    /\ startPc' = [startPc EXCEPT ![r] = "ret"]
    /\ UNCHANGED <<stopOnce, stopped, watcher, doStopPc, sigterm, sigkill,
                   ctxDone, mgrVars, callerCtxDone, callVars, sdVars, bufVars>>

\* manager.go:102  ctx, cancel := context.WithCancel(context.Background()):
\* the parent of the context a Manager's Runner runs under is Background,
\* which is never done, and not the ctx parameter of Manager.Start
ParentCtxDone == FALSE

\* a watcher that never sees its context done
CtxNeverSeen(r) == FALSE

\* the context handed to Runner.Start is done: it was cancelled itself, or
\* (under a Manager) its parent is done
RunCtxDone(r) == ctxDone[r] \/ (owner[r] # UnknownId /\ ParentCtxDone)

\* a Start that hands back what cmd.Wait reported, whoever ended the process
StartResultRaw(r) == waitErr[r]

\* runner.go:121-125  the value Runner.Start returns
StartResult(r) ==
    IF wasStopped[r] \/ RunCtxDone(r) THEN "Canceled" ELSE waitErr[r]

\* runner.go:121-125; a client goroutine blocked in this Start call (pc
\* "instart") gets the value, the Manager's background task discards it
StartCaller(r) == {a \in Agents : pc[a] = "instart" /\ inst[a] = r}

StartReturn(r) ==
    /\ startPc[r] = "ret"
    /\ startPc' = [startPc EXCEPT ![r] = "returned"]
    /\ wasStopped' = [wasStopped EXCEPT ![r] = FALSE]
    /\ IF StartCaller(r) # {}
       THEN Done(CHOOSE a \in StartCaller(r) : TRUE, "rStart", 1, "",
                 StartResult(r))
       ELSE UNCHANGED callVars
    /\ UNCHANGED <<state, proc, stopOnce, waitDone, waitErr, stopped,
                   watcher, doStopPc, exitErr, sigterm, sigkill, ctxDone,
                   mgrVars, callerCtxDone, sdVars, bufVars>>

\* a doStop without the sync.Once: every caller runs the body
OnceAgain(r) == TRUE

\* runner.go:143  stopOnce.Do runs f for the first caller only
OnceFresh(r) == stopOnce[r] = "idle"

\* entering r.doStop(): the first caller starts the body, every caller
\* then blocks in Do until the body has returned
EnterOnce(r) ==
    IF OnceFresh(r)
    THEN /\ stopOnce' = [stopOnce EXCEPT ![r] = "busy"]
         /\ doStopPc' = [doStopPc EXCEPT ![r] = "lock"]
    ELSE UNCHANGED <<stopOnce, doStopPc>>

\* runner.go:104-107  case <-ctx.Done(): r.doStop()
\* (internalCtx is never cancelled: r.cancelCtx has no caller)
WatcherFire(r) ==
    /\ watcher[r] = "select"
    /\ RunCtxDone(r)
    /\ EnterOnce(r)
    /\ watcher' = [watcher EXCEPT ![r] = "done"]
    /\ UNCHANGED <<state, proc, waitDone, waitErr, stopped, startPc,
                   wasStopped, exitErr, sigterm, sigkill, ctxDone, mgrVars,
                   callerCtxDone, callVars, sdVars, bufVars>>

\* runner.go:149  if cmd == nil || cmd.Process == nil { return }
NoProcess(r) == proc[r] \in {"nil", "failed"}

\* runner.go:144-156  r.stopped = true under the lock, the nil checks, then
\* syscall.Kill(-pgid, SIGTERM)
DoStopTerm(r) ==
    /\ doStopPc[r] = "lock"
    /\ stopped' = [stopped EXCEPT ![r] = TRUE]
    /\ IF NoProcess(r)
       THEN /\ doStopPc' = [doStopPc EXCEPT ![r] = "done"]
            /\ stopOnce' = [stopOnce EXCEPT ![r] = "done"]
            /\ UNCHANGED sigterm
       ELSE /\ doStopPc' = [doStopPc EXCEPT ![r] = "grace"]
            /\ sigterm' = [sigterm EXCEPT ![r] = @ + 1]
            /\ UNCHANGED stopOnce
    /\ UNCHANGED <<state, proc, waitDone, waitErr, startPc, wasStopped,
                   watcher, exitErr, sigkill, ctxDone, mgrVars,
                   callerCtxDone, callVars, sdVars, bufVars>>

\* runner.go:158-160  case <-r.waitDone: return
DoStopExited(r) ==
    /\ doStopPc[r] = "grace"
    /\ waitDone[r]
    /\ doStopPc' = [doStopPc EXCEPT ![r] = "done"]
    /\ stopOnce' = [stopOnce EXCEPT ![r] = "done"]
    /\ UNCHANGED <<state, proc, waitDone, waitErr, stopped, startPc,
                   wasStopped, watcher, exitErr, sigterm, sigkill, ctxDone,
                   mgrVars, callerCtxDone, callVars, sdVars, bufVars>>

\* a stop sequence that gives up when the grace period is over
DoStopGiveUp(r) ==
    /\ doStopPc[r] = "grace"
    /\ doStopPc' = [doStopPc EXCEPT ![r] = "done"]
    /\ stopOnce' = [stopOnce EXCEPT ![r] = "done"]
    /\ UNCHANGED <<state, proc, waitDone, waitErr, stopped, startPc,
                   wasStopped, watcher, exitErr, sigterm, sigkill, ctxDone,
                   mgrVars, callerCtxDone, callVars, sdVars, bufVars>>

\* runner.go:161-164  case <-time.After(StopTimeout): syscall.Kill(-pgid, SIGKILL)
\* (no clock is modelled: the timer may fire whenever the select waits)
DoStopTimeout(r) ==
    /\ doStopPc[r] = "grace"
    /\ sigkill' = [sigkill EXCEPT ![r] = @ + 1]
    /\ doStopPc' = [doStopPc EXCEPT ![r] = "done"]
    /\ stopOnce' = [stopOnce EXCEPT ![r] = "done"]
    /\ UNCHANGED <<state, proc, waitDone, waitErr, stopped, startPc,
                   wasStopped, watcher, exitErr, sigterm, ctxDone, mgrVars,
                   callerCtxDone, callVars, sdVars, bufVars>>

\* ------------------------------------------------- Runner.Stop, by agent a
\* a Stop whose early return forgets the Runner that was never started
StopOnlySkipsStopped(r) == state[r] = "stopped"

\* runner.go:133  if state == StateInitial || state == StateStopped
StopIsNoop(r) == state[r] \in {"initial", "stopped"}

\* runner.go:129-137, called as operation o on identifier x for the Runner r:
\* the read of the state and, when it is Running, the entry into r.doStop()
StopRead(a, o, x, r) ==
    IF StopIsNoop(r)
    THEN /\ Done(a, o, x, "", "nil")
         /\ UNCHANGED <<stopOnce, doStopPc>>
    ELSE /\ Goto(a, o, x, r, "inonce")
         /\ EnterOnce(r)

\* a Stop that returns as soon as Do has returned, without <-r.waitDone
RStopNoWait(a) ==
    /\ pc[a] = "inonce"
    /\ stopOnce[inst[a]] = "done"
    /\ Done(a, op[a], arg[a], "", "nil")
    /\ UNCHANGED <<runnerVars, ctxDone, mgrVars, callerCtxDone, sdVars, bufVars>>

\* runner.go:137-139  Do has returned; <-r.waitDone; return nil
RStopWait(a) ==
    /\ pc[a] = "inonce"
    /\ stopOnce[inst[a]] = "done"
    /\ waitDone[inst[a]]
    /\ Done(a, op[a], arg[a], "", "nil")
    /\ UNCHANGED <<runnerVars, ctxDone, mgrVars, callerCtxDone, sdVars, bufVars>>

\* ------------------------------------ direct use of one Runner (RunnerSpec)
TheRunner == 1

\* runner.go:128-137  a client calls r.Stop()
RStop(t) ==
    /\ Idle(t)
    /\ StopRead(t, "rStop", 0, TheRunner)
    /\ UNCHANGED <<state, proc, waitDone, waitErr, stopped, startPc,
                   wasStopped, watcher, exitErr, sigterm, sigkill, ctxDone,
                   mgrVars, callerCtxDone, sdVars, bufVars>>

\* runner.go:169-173  a client calls r.State()
RState(t) ==
    /\ Idle(t)
    /\ Done(t, "rState", 0, state[TheRunner], "nil")
    /\ UNCHANGED <<runnerVars, ctxDone, mgrVars, callerCtxDone, sdVars, bufVars>>

\* runner.go:175-178  a client calls r.Wait(): <-r.waitDone; return r.waitErr
\* (the call and its wait are one step: a caller that is blocked has done
\* nothing yet that anyone can see)
RWait(t) ==
    /\ Idle(t)
    /\ waitDone[TheRunner]
    /\ Done(t, "rWait", 0, "", waitErr[TheRunner])
    /\ UNCHANGED <<runnerVars, ctxDone, mgrVars, callerCtxDone, sdVars, bufVars>>

\* runner.go:69-97  a client calls r.Start(ctx) (withCtx = 1) or r.Start(nil)
RStart(t, withCtx) ==
    /\ Idle(t)
    /\ IF withCtx = 0
       THEN /\ Done(t, "rStart", 0, "", "ErrNilContext")
            /\ UNCHANGED <<state, proc, startPc, watcher>>
       ELSE IF ~StartAllowed(TheRunner)
       THEN /\ Done(t, "rStart", 1, "", "ErrAlreadyStarted")
            /\ UNCHANGED <<state, proc, startPc, watcher>>
       ELSE \E ok \in BOOLEAN :
            /\ SpawnLocked(TheRunner, ok)
            /\ IF ok
               THEN Goto(t, "rStart", 1, TheRunner, "instart")
               ELSE Done(t, "rStart", 1, "", SpawnError)
    /\ UNCHANGED <<stopOnce, waitDone, waitErr, stopped, wasStopped, doStopPc,
                   exitErr, sigterm, sigkill, ctxDone, mgrVars, callerCtxDone,
                   sdVars, bufVars>>

\* the owner of the context handed to Runner.Start cancels it
CancelCtx(r) ==
    /\ state[r] # "none"
    /\ ~ctxDone[r]
    /\ ctxDone' = [ctxDone EXCEPT ![r] = TRUE]
    /\ UNCHANGED <<runnerVars, mgrVars, callerCtxDone, callVars, sdVars, bufVars>>

\* ------------------------------------------------------- initial states
InitCommon ==
    /\ proc = [r \in Runners |-> "nil"]
    /\ stopOnce = [r \in Runners |-> "idle"]
    /\ waitDone = [r \in Runners |-> FALSE]
    /\ waitErr = [r \in Runners |-> "nil"]
    /\ stopped = [r \in Runners |-> FALSE]
    /\ startPc = [r \in Runners |-> "none"]
    /\ wasStopped = [r \in Runners |-> FALSE]
    /\ watcher = [r \in Runners |-> "none"]
    /\ doStopPc = [r \in Runners |-> "none"]
    /\ ctxDone = [r \in Runners |-> FALSE]
    /\ exitErr = [r \in Runners |-> "nil"]
    /\ sigterm = [r \in Runners |-> 0]
    /\ sigkill = [r \in Runners |-> 0]
    /\ instances = [i \in Ids \cup {UnknownId} |-> NoInst]
    /\ status = [r \in Runners |-> "none"]
    /\ owner = [r \in Runners |-> UnknownId]
    /\ task = [r \in Runners |-> "none"]
    /\ callerCtxDone = FALSE
    /\ pc = [a \in Agents |-> "idle"]
    /\ op = [a \in Agents |-> "none"]
    /\ arg = [a \in Agents |-> 0]
    /\ inst = [a \in Agents |-> NoInst]
    /\ last = NoCall
    /\ sdIds = {}
    /\ sdDone = FALSE
    /\ sdCtxDone = FALSE
    /\ sdTracked = {}
    /\ out = [r \in Runners |-> 0]
    /\ got = 0

\* the value of rbRet before any call has returned
NoReturn == [op |-> "none", n |-> 0, lines |-> <<>>, err |-> "nil"]

\* the goroutines that write to one RingBuffer at the same time
NWriters == 2
Writers == 1..NWriters

\* no goroutine is writing
NoWriters ==
    /\ cMu = 0
    /\ cPc = [w \in Writers |-> "idle"]
    /\ cParts = [w \in Writers |-> <<>>]
    /\ cI = [w \in Writers |-> 0]
    /\ cLeft = [w \in Writers |-> 0]

\* the value of stRet before any call has returned
NoResult == [op |-> "none", id |-> 0, err |-> "nil", cmds |-> <<>>]

\* a Store just returned by command.NewStore
NoStore ==
    /\ commands = <<>>
    /\ stNext = 1
    /\ stRet = NoResult

\* no RingBuffer is used on its own
NoRingBuffer ==
    /\ NoWriters
    /\ rbCap = 0
    /\ rbLines = <<>>
    /\ rbHead = 0
    /\ rbCount = 0
    /\ rbPending = <<>>
    /\ rbStream = <<>>
    /\ rbRet = NoReturn

\* one Runner just returned by runner.New (runner.go:62-66)
RunnerInit ==
    /\ InitCommon
    /\ NoRingBuffer
    /\ NoStore
    /\ state = [r \in Runners |-> IF r = TheRunner THEN "initial" ELSE "none"]

RunnerSteps(r) ==
    \/ ProcExit(r)
    \/ StartFinish(r)
    \/ StartReturn(r)
    \/ WatcherFire(r)
    \/ DoStopTerm(r)
    \/ DoStopExited(r)
    \/ DoStopTimeout(r)

RunnerNext ==
    \/ \E r \in Runners : RunnerSteps(r)
    \/ \E t \in 1..RThreads, c \in {0, 1} : RStart(t, c)
    \/ \E t \in 1..RThreads : RStop(t)
    \/ \E t \in 1..RThreads : RState(t)
    \/ \E t \in 1..RThreads : RWait(t)
    \/ \E t \in 1..RThreads : RStopWait(t)
    \/ CancelCtx(TheRunner)

RunnerSpec == RunnerInit /\ [][RunnerNext]_vars

\* ------------------------------------------------------------ Manager
\* a Start that does not ask the store
KnownAll(id) == TRUE

\* the store of command definitions (command.Store.Get, manager.go:69)
Known(id) == \E i \in 1..Len(commands) : commands[i].id = id

Constructed == {r \in Runners : state[r] # "none"}
FreshRunner == CHOOSE r \in Runners \ Constructed :
                   \A q \in Runners \ Constructed : r <= q

\* a Start that does not look for a Running instance
NeverRunning(id) == FALSE

\* manager.go:78-79  an instance exists and is recorded Running
AlreadyRunning(id) ==
    instances[id] # NoInst /\ status[instances[id]] = "running"

\* a Start that records the new Instance as not started
StatusNotStarted == "not_started"

\* manager.go:22 and 108  the status a new Instance is recorded with
StatusRunning == "running"

\* a Start that calls r.Start itself before it releases m.mu, so that the
\* process is spawned with the registry lock held
MStartInline(t, id) ==
    /\ Idle(t)
    /\ IF ~Known(id)
       THEN /\ Done(t, "Start", id, "false", "ErrCommandNotFound")
            /\ UNCHANGED <<state, ctxDone, mgrVars, proc, startPc, watcher>>
       ELSE IF AlreadyRunning(id)
       THEN /\ Done(t, "Start", id, "false", "nil")
            /\ UNCHANGED <<state, ctxDone, mgrVars, proc, startPc, watcher>>
       ELSE /\ Constructed # Runners
            /\ LET r == FreshRunner IN
               /\ state' = [state EXCEPT ![r] = "running"]
               /\ proc' = [proc EXCEPT ![r] = "alive"]
               /\ startPc' = [startPc EXCEPT ![r] = "recv"]
               /\ watcher' = [watcher EXCEPT ![r] = "select"]
               /\ ctxDone' = [ctxDone EXCEPT ![r] = FALSE]
               /\ status' = [status EXCEPT ![r] = "running"]
               /\ owner' = [owner EXCEPT ![r] = id]
               /\ instances' = [instances EXCEPT ![id] = r]
               /\ task' = [task EXCEPT ![r] = "in"]
            /\ Done(t, "Start", id, "true", "nil")
    /\ UNCHANGED <<stopOnce, waitDone, waitErr, stopped, wasStopped, doStopPc,
                   exitErr, sigterm, sigkill, callerCtxDone, sdVars, bufVars>>

\* manager.go:68-124  Start(ctx, id): the lookup in the store (which no
\* operation of the Manager changes), the section under m.mu, the launch of
\* the background task and the return.  A call that needs a new Runner waits
\* while the model has none left.
MStart(t, id) ==
    /\ Idle(t)
    /\ IF ~Known(id)
       THEN /\ Done(t, "Start", id, "false", "ErrCommandNotFound")
            /\ UNCHANGED <<state, ctxDone, mgrVars>>
       ELSE IF AlreadyRunning(id)
       THEN /\ Done(t, "Start", id, "false", "nil")
            /\ UNCHANGED <<state, ctxDone, mgrVars>>
       ELSE /\ Constructed # Runners
            /\ LET r == FreshRunner IN
               /\ state' = [state EXCEPT ![r] = "initial"]
               /\ ctxDone' = [ctxDone EXCEPT ![r] = FALSE]
               /\ status' = [status EXCEPT ![r] = StatusRunning]
               /\ owner' = [owner EXCEPT ![r] = id]
               /\ instances' = [instances EXCEPT ![id] = r]
               /\ task' = [task EXCEPT ![r] = "call"]
            /\ Done(t, "Start", id, "true", "nil")
    /\ UNCHANGED <<proc, stopOnce, waitDone, waitErr, stopped, startPc,
                   wasStopped, watcher, doStopPc, exitErr, sigterm, sigkill,
                   callerCtxDone, sdVars, bufVars>>

\* manager.go:115  the background task calls r.Start(ctx)
TaskCall(r) ==
    /\ task[r] = "call"
    /\ \E ok \in BOOLEAN : SpawnLocked(r, ok)
    /\ task' = [task EXCEPT ![r] = "in"]
    /\ UNCHANGED <<stopOnce, waitDone, waitErr, stopped, wasStopped, doStopPc,
                   exitErr, sigterm, sigkill, ctxDone, instances, status,
                   owner, callerCtxDone, callVars, sdVars, bufVars>>

\* a background task that marks the Instance without waiting for r.Start
TaskBackEarly(r) == task[r] = "in"

\* r.Start has returned to the background task: after the process ended
\* (runner.go:121-125) or at once when the spawn failed (runner.go:88-94)
TaskBack(r) ==
    /\ task[r] = "in"
    /\ \/ startPc[r] = "returned"
       \/ proc[r] = "failed"

\* a background task that ends without marking the Instance
TaskFlipSkips(r) ==
    /\ TaskBack(r)
    /\ task' = [task EXCEPT ![r] = "done"]
    /\ UNCHANGED <<runnerVars, ctxDone, instances, status, owner,
                   callerCtxDone, callVars, sdVars, bufVars>>

\* a background task that marks every recorded Instance Stopped
TaskFlipAll(r) ==
    /\ TaskBack(r)
    /\ status' = [q \in Runners |->
                     IF owner[q] # UnknownId THEN "stopped" ELSE status[q]]
    /\ task' = [task EXCEPT ![r] = "done"]
    /\ UNCHANGED <<runnerVars, ctxDone, instances, owner, callerCtxDone,
                   callVars, sdVars, bufVars>>

\* manager.go:117-121  the Instance now stored under id is marked Stopped
TaskFlip(r) ==
    /\ TaskBack(r)
    /\ LET cur == instances[owner[r]] IN
       IF cur # NoInst
       THEN status' = [status EXCEPT ![cur] = "stopped"]
       ELSE UNCHANGED status
    /\ task' = [task EXCEPT ![r] = "done"]
    /\ UNCHANGED <<runnerVars, ctxDone, instances, owner, callerCtxDone,
                   callVars, sdVars, bufVars>>

\* a Stop that takes a missing Instance for one that is stopped already
StopLookupLax(a, id) ==
    IF instances[id] = NoInst \/ status[instances[id]] = "stopped"
    THEN Done(a, "Stop", id, "", "nil")
    ELSE Goto(a, "Stop", id, instances[id], "mcancel")

\* a Stop that does not look at the recorded status
StopLookupAlways(a, id) ==
    IF instances[id] = NoInst
    THEN Done(a, "Stop", id, "", "ErrNotRunning")
    ELSE Goto(a, "Stop", id, instances[id], "mcancel")

\* manager.go:128-138  Stop(id): the lookup under the read lock and the read
\* of the Instance's status
StopLookup(a, id) ==
    IF instances[id] = NoInst
    THEN Done(a, "Stop", id, "", "ErrNotRunning")
    ELSE IF status[instances[id]] = "stopped"
    THEN Done(a, "Stop", id, "", "nil")
    ELSE Goto(a, "Stop", id, instances[id], "mcancel")

MStop(t, id) ==
    /\ Idle(t)
    /\ StopLookup(t, id)
    /\ UNCHANGED <<runnerVars, ctxDone, mgrVars, callerCtxDone, sdVars, bufVars>>

\* manager.go:140  inst.cancel()
MStopCancel(a) ==
    /\ pc[a] = "mcancel"
    /\ ctxDone' = [ctxDone EXCEPT ![inst[a]] = TRUE]
    /\ Step(a, "rstop")
    /\ UNCHANGED <<runnerVars, mgrVars, callerCtxDone, sdVars, bufVars>>

\* manager.go:141  _ = inst.runner.Stop()   (runner.go:129-137)
MStopRunner(a) ==
    /\ pc[a] = "rstop"
    /\ StopRead(a, "Stop", arg[a], inst[a])
    /\ UNCHANGED <<state, proc, waitDone, waitErr, stopped, startPc,
                   wasStopped, watcher, exitErr, sigterm, sigkill, ctxDone,
                   mgrVars, callerCtxDone, sdVars, bufVars>>

\* manager.go:170-180  Status(id)
MStatus(t, id) ==
    /\ Idle(t)
    /\ IF instances[id] = NoInst
       THEN Done(t, "Status", id, "not_started", "ErrNotRunning")
       ELSE Done(t, "Status", id, status[instances[id]], "nil")
    /\ UNCHANGED <<runnerVars, ctxDone, mgrVars, callerCtxDone, sdVars, bufVars>>

\* manager.go:146-168  Output(id) and OutputLastN(id, n), o naming which: the
\* lookup under the read lock, then the lines of the Instance's buffer
\* The buffer of an Instance is kept as the number of lines its process has
\* written to it; MaxLines is below the configured capacity, so that no line
\* is overwritten.
MaxLines == 1

\* the n of OutputLastN(id, n)
LastNs == 0..(MaxLines + 1)

\* an Output that returns no line
SnapshotNone(o, k, n) == 0

\* how many lines inst.buffer.Lines() and inst.buffer.LastN(n) return from a
\* buffer that holds k
Snapshot(o, k, n) ==
    IF o = "Output" THEN k
    ELSE IF n <= 0 THEN 0
    ELSE IF n > k THEN k ELSE n

OutputCall(t, id, o, n) ==
    /\ Idle(t)
    /\ IF instances[id] = NoInst
       THEN /\ Done(t, o, id, "nil", "ErrNotRunning")
            /\ got' = 0
       ELSE /\ Done(t, o, id, "lines", "nil")
            /\ got' = Snapshot(o, out[instances[id]], n)
    /\ UNCHANGED <<runnerVars, ctxDone, mgrVars, callerCtxDone, sdVars, out,
                   rbVars, lockVars, storeVars>>

MOutput(t, id, o) == \E n \in LastNs : OutputCall(t, id, o, n)

\* the process of Runner r writes a line to its standard output or error,
\* which os/exec copies into the buffer until cmd.Wait returns
\* (runner.go:84-85 and 100-102)
ProcWrite(r) ==
    /\ owner[r] # UnknownId
    /\ proc[r] \in {"alive", "exited"}
    /\ out[r] < MaxLines
    /\ out' = [out EXCEPT ![r] = out[r] + 1]
    /\ UNCHANGED <<runnerVars, ctxDone, mgrVars, callerCtxDone, callVars,
                   sdVars, got, rbVars, lockVars, storeVars>>

\* manager.go:183-196  Shutdown(ctx): the snapshot of the ids and the launch
\* of the goroutine that stops them.  One Shutdown runs at a time.
Tracked == {id \in Ids : instances[id] # NoInst}

Shutdown(t) ==
    /\ Idle(t)
    /\ pc[Worker] = "idle"
    /\ \A u \in Threads : pc[u] # "sdwait"
    /\ sdIds' = Tracked
    /\ sdTracked' = {instances[id] : id \in Tracked}
    /\ sdDone' = FALSE
    /\ sdCtxDone' = FALSE
    /\ pc' = [pc EXCEPT ![t] = "sdwait", ![Worker] = "next"]
    /\ op' = [op EXCEPT ![t] = "Shutdown"]
    /\ UNCHANGED <<arg, inst, last>>
    /\ UNCHANGED <<runnerVars, ctxDone, mgrVars, callerCtxDone, bufVars>>

\* manager.go:192-194  for _, id := range ids { _ = m.Stop(id) }
WorkerStop ==
    /\ pc[Worker] = "next"
    /\ \E id \in sdIds :
         /\ sdIds' = sdIds \ {id}
         /\ StopLookup(Worker, id)
    /\ UNCHANGED <<runnerVars, ctxDone, mgrVars, callerCtxDone, sdDone,
                   sdCtxDone, sdTracked, bufVars>>

\* a goroutine that closes done before its loop is over
WorkerCloseEarly ==
    /\ pc[Worker] = "next"
    /\ sdDone' = (\E t \in Threads : pc[t] = "sdwait")
    /\ Step(Worker, "idle")
    /\ UNCHANGED <<runnerVars, ctxDone, mgrVars, callerCtxDone, sdIds,
                   sdCtxDone, sdTracked, bufVars>>

\* manager.go:195  close(done); nobody looks at the channel once the
\* Shutdown call has returned on its context
WorkerClose ==
    /\ pc[Worker] = "next"
    /\ sdIds = {}
    /\ sdDone' = (\E t \in Threads : pc[t] = "sdwait")
    /\ Step(Worker, "idle")
    /\ UNCHANGED <<runnerVars, ctxDone, mgrVars, callerCtxDone, sdIds,
                   sdCtxDone, sdTracked, bufVars>>

\* manager.go:199-200  case <-done: return nil
ShutdownDone(t) ==
    /\ pc[t] = "sdwait"
    /\ sdDone
    /\ Done(t, "Shutdown", 0, "", "nil")
    /\ sdDone' = FALSE /\ sdCtxDone' = FALSE /\ sdTracked' = {}
    /\ UNCHANGED <<runnerVars, ctxDone, mgrVars, callerCtxDone, sdIds,
                   bufVars>>

\* manager.go:201-202  case <-ctx.Done(): return ctx.Err()
ShutdownCtx(t) ==
    /\ pc[t] = "sdwait"
    /\ sdCtxDone
    /\ Done(t, "Shutdown", 0, "", "ctxErr")
    /\ sdDone' = FALSE /\ sdCtxDone' = FALSE /\ sdTracked' = {}
    /\ UNCHANGED <<runnerVars, ctxDone, mgrVars, callerCtxDone, sdIds,
                   bufVars>>

\* the caller of Shutdown cancels its context, or its deadline passes
CancelShutdownCtx ==
    /\ \E t \in Threads : pc[t] = "sdwait"
    /\ ~sdCtxDone
    /\ sdCtxDone' = TRUE
    /\ UNCHANGED <<runnerVars, ctxDone, mgrVars, callerCtxDone, callVars,
                   sdIds, sdDone, sdTracked, bufVars>>

\* the caller of Manager.Start cancels the context it passed
CancelCallerCtx ==
    /\ ~callerCtxDone
    /\ callerCtxDone' = TRUE
    /\ UNCHANGED <<runnerVars, ctxDone, mgrVars, callVars, sdVars, bufVars>>

\* a Manager just returned by manager.New (manager.go:54-66)
\* the command definitions a Manager is given: one for every identifier of
\* Ids, created in that order
Defined == [i \in 1..NIds |-> [id |-> i, text |-> "a"]]

Init ==
    /\ InitCommon
    /\ NoRingBuffer
    /\ commands = Defined
    /\ stNext = NIds + 1
    /\ stRet = NoResult
    /\ state = [r \in Runners |-> "none"]

ManagerSteps(stoppers) ==
    \/ \E r \in Runners : RunnerSteps(r)
    \/ \E r \in Runners : TaskCall(r)
    \/ \E r \in Runners : TaskFlip(r)
    \/ \E a \in stoppers : MStopCancel(a)
    \/ \E a \in stoppers : MStopRunner(a)
    \/ \E a \in stoppers : RStopWait(a)

Next ==
    \/ ManagerSteps(MThreads)
    \/ \E t \in MThreads, id \in Ids \cup {UnknownId} : MStart(t, id)
    \/ \E t \in MThreads, id \in Ids : MStop(t, id)
    \/ \E t \in MThreads, id \in Ids : MStatus(t, id)

Spec == Init /\ [][Next]_vars

\* The Manager with Shutdown: the clients start commands and shut the
\* Manager down, the goroutine of Shutdown stops what was tracked.
ShutdownNext ==
    \/ ManagerSteps((1..SThreads) \cup {Worker})
    \/ \E t \in 1..SThreads, id \in Ids : MStart(t, id)
    \/ \E t \in 1..SThreads : Shutdown(t)
    \/ WorkerStop
    \/ WorkerClose
    \/ \E t \in 1..SThreads : ShutdownDone(t)
    \/ \E t \in 1..SThreads : ShutdownCtx(t)
    \/ CancelShutdownCtx

ShutdownSpec == Init /\ [][ShutdownNext]_vars

\* The Manager with its queries: a client starts and stops commands and
\* asks for status and output, for identifiers the store knows and for one
\* it does not know, while the background goroutines run.
QueryNext ==
    \/ ManagerSteps(1..SThreads)
    \/ \E t \in 1..SThreads, id \in Ids \cup {UnknownId} : MStart(t, id)
    \/ \E t \in 1..SThreads, id \in Ids \cup {UnknownId} : MStop(t, id)
    \/ \E t \in 1..SThreads, id \in Ids \cup {UnknownId} : MStatus(t, id)
    \/ \E t \in 1..SThreads, id \in Ids \cup {UnknownId},
          o \in {"Output", "OutputLastN"} : MOutput(t, id, o)

QuerySpec == Init /\ [][QueryNext]_vars

\* The Manager with the output of its processes: a client starts and stops
\* commands and reads their status and output while the processes write.
OutputNext ==
    \/ ManagerSteps(1..SThreads)
    \/ \E r \in Runners : ProcWrite(r)
    \/ \E t \in 1..SThreads, id \in Ids : MStart(t, id)
    \/ \E t \in 1..SThreads, id \in Ids : MStop(t, id)
    \/ \E t \in 1..SThreads, id \in Ids : MStatus(t, id)
    \/ \E t \in 1..SThreads, id \in Ids,
          o \in {"Output", "OutputLastN"} : MOutput(t, id, o)

OutputSpec == Init /\ [][OutputNext]_vars

\* The Manager under fair scheduling: every goroutine of the program that
\* can take its next step takes it in the end, a timer that was started
\* fires, and a process group that was sent SIGKILL ends.  Nothing obliges a
\* client to call, a context to be cancelled, or a process to end on its own
\* or on SIGTERM.
ProcKilled(r) == sigkill[r] > 0 /\ ProcExit(r)

LiveNext ==
    \/ ManagerSteps(1..SThreads)
    \/ \E t \in 1..SThreads, id \in Ids : MStart(t, id)
    \/ \E t \in 1..SThreads, id \in Ids : MStop(t, id)
    \/ CancelCallerCtx

Fairness ==
    /\ \A r \in Runners :
         /\ WF_vars(TaskCall(r))
         /\ WF_vars(TaskFlip(r))
         /\ WF_vars(StartFinish(r))
         /\ WF_vars(StartReturn(r))
         /\ WF_vars(WatcherFire(r))
         /\ WF_vars(DoStopTerm(r))
         /\ WF_vars(DoStopExited(r) \/ DoStopTimeout(r))
         /\ WF_vars(ProcKilled(r))
    /\ \A a \in 1..SThreads :
         /\ WF_vars(MStopCancel(a))
         /\ WF_vars(MStopRunner(a))
         /\ WF_vars(RStopWait(a))

LiveSpec == Init /\ [][LiveNext]_vars /\ Fairness

\* One Runner under fair scheduling: the goroutines of Start and of the stop
\* sequence and a Stop that can return go on, the timer of the grace period
\* fires, a process group that was sent SIGKILL ends.  Nothing obliges a
\* client to call, the context to be cancelled, or the process to end on its
\* own or on SIGTERM.
RunnerFairness ==
    /\ \A r \in Runners :
         /\ WF_vars(StartFinish(r))
         /\ WF_vars(StartReturn(r))
         /\ WF_vars(WatcherFire(r))
         /\ WF_vars(DoStopTerm(r))
         /\ WF_vars(DoStopExited(r) \/ DoStopTimeout(r))
         /\ WF_vars(ProcKilled(r))
    /\ \A t \in 1..RThreads : WF_vars(RStopWait(t))

RunnerLiveSpec == RunnerInit /\ [][RunnerNext]_vars /\ RunnerFairness

\* ------------------------------------------------------------ properties
\* the Runners a Manager has created for the identifier id, and whether all
\* of them were left alone: no process of theirs failed to spawn or ended,
\* no context of theirs was cancelled
RunnersOf(id) == {r \in Runners : owner[r] = id}
Undisturbed(id) ==
    \A r \in RunnersOf(id) : proc[r] \in {"nil", "alive"} /\ ~ctxDone[r]

\* the step in which a Manager.Stop call of goroutine a, which had found its
\* Instance Running, returns
StopReturns(a) == (MStopRunner(a) \/ RStopWait(a)) /\ pc'[a] = "idle"

\* C1: at every moment at most one OS process spawned by the Manager for an
\* identifier is alive, whatever Start and Stop calls, exits and
\* cancellations interleave.
C1_OneLiveProcessPerId ==
    \A id \in Ids :
        Cardinality({r \in RunnersOf(id) : proc[r] = "alive"}) <= 1

\* C1 witness: an identifier was started again after its first process was
\* reaped, and the second process is alive.
C1_Witness ==
    \E id \in Ids : \E r1, r2 \in RunnersOf(id) :
        /\ r1 # r2
        /\ proc[r1] = "reaped"
        /\ proc[r2] = "alive"
        /\ instances[id] = r2

\* C2: of the Start calls for one known identifier with no Stop, no
\* cancellation and no process end in between, the one that finds no
\* Instance returns (true, nil) and creates the only Runner, every other one
\* returns (false, nil) and creates nothing.
C2_OneStartWins ==
    [][\A t \in MThreads, id \in Ids :
          (MStart(t, id) /\ Undisturbed(id)) =>
              /\ last' = <<"Start",
                           IF RunnersOf(id) = {} THEN "true" ELSE "false",
                           "nil">>
              /\ Cardinality({r \in Runners : owner'[r] = id}) = 1]_vars

\* C2 witness: a Start for an identifier that is the only one ever started,
\* whose single process is alive and undisturbed, has returned (false, nil).
C2_Witness ==
    \E id \in Ids :
        /\ Cardinality(RunnersOf(id)) = 1
        /\ Undisturbed(id)
        /\ proc[instances[id]] = "alive"
        /\ \A j \in Ids \ {id} : RunnersOf(j) = {}
        /\ last = <<"Start", "false", "nil">>

\* C3: a Start for an identifier whose Instance is recorded Running returns
\* (false, nil) and changes neither the registry nor any Instance, Runner or
\* context: the same Instance, with the buffer it was created with, stays.
C3_StartOnRunningIsNoop ==
    [][\A t \in MThreads, id \in Ids :
          (/\ MStart(t, id)
           /\ instances[id] # NoInst
           /\ status[instances[id]] = "running") =>
              /\ last' = <<"Start", "false", "nil">>
              /\ UNCHANGED <<instances, status, owner, task, runnerVars,
                             ctxDone>>]_vars

\* C3 witness: the registry holds exactly one Instance, it is Running, and
\* the Start that returned last returned (false, nil).
C3_Witness ==
    \E id \in Ids :
        /\ Constructed = {instances[id]}
        /\ status[instances[id]] = "running"
        /\ task[instances[id]] = "in"
        /\ last = <<"Start", "false", "nil">>

\* C4: when a Manager.Stop that found its Instance Running returns, the
\* process of that Instance has ended (or could not be spawned): no process
\* of the Instance is spawned or alive afterwards.
C4_StopWaitsForExit ==
    [][\A a \in MThreads :
          StopReturns(a) =>
              proc'[inst[a]] \in {"failed", "exited", "reaped"}]_vars

\* C5: when a Manager.Stop that waited for the process of its Instance
\* returns, the Instance is recorded Stopped, so that a Status call made
\* next reports stopped.
C5_StoppedWhenStopReturns ==
    [][\A a \in MThreads :
          (RStopWait(a) /\ op[a] = "Stop") =>
              status'[inst[a]] = "stopped"]_vars

\* C8: no Instance is registered for a command whose process could not be
\* spawned.
C8_NoInstanceOnSpawnFailure ==
    \A id \in Ids :
        instances[id] # NoInst => proc[instances[id]] # "failed"

\* C6: when Shutdown returns nil, every Instance that was tracked when it
\* was called is recorded Stopped.
C6_ShutdownLeavesAllStopped ==
    [][\A t \in 1..SThreads :
          ShutdownDone(t) =>
              \A r \in sdTracked : status'[r] = "stopped"]_vars

\* C7: once the context that was passed to Manager.Start is cancelled while
\* the Instance is Running and its process alive, the Instance becomes
\* Stopped, with no Stop or Shutdown call needed.
C7_CallerCancelStops ==
    \A r \in Runners :
        (callerCtxDone /\ status[r] = "running" /\ proc[r] = "alive")
            ~> (status[r] = "stopped")

\* C9: the state of a Runner only ever goes from Initial to Running and from
\* Running to Stopped: the states it takes form a prefix of Initial,
\* Running, Stopped, with no step back and none from Initial to Stopped.
C9_StateOnlyAdvances ==
    [][\A r \in Runners :
          state'[r] # state[r] =>
              <<state[r], state'[r]>> \in
                  {<<"initial", "running">>, <<"running", "stopped">>}]_vars

\* C9 witness: the Runner went through all three states and a State call
\* made after its process was reaped read Stopped.
C9_Witness ==
    /\ state[TheRunner] = "stopped"
    /\ proc[TheRunner] = "reaped"
    /\ last = <<"rState", "stopped", "nil">>

\* C10: however many Stop calls and context cancellations race on a Running
\* Runner, the stop sequence runs once (one SIGTERM, at most one SIGKILL, and
\* that only after the SIGTERM), every Stop returns nil, and a Stop that
\* found the Runner Running returns with the state Stopped.
C10_StopRunsOnce ==
    /\ [](\A r \in Runners :
             /\ sigterm[r] <= 1
             /\ sigkill[r] <= sigterm[r]
             /\ stopOnce[r] = "done" => sigterm[r] = 1)
    /\ [](last[1] = "rStop" => last[3] = "nil")
    /\ [][\A t \in 1..RThreads :
             RStopWait(t) =>
                 /\ state'[TheRunner] = "stopped"
                 /\ sigterm'[TheRunner] = 1]_vars

\* C10 witness: a Stop that found the Runner Running has returned nil while
\* another such Stop is still inside and the context was cancelled too; one
\* SIGTERM and one SIGKILL were sent.
C10_Witness ==
    /\ last = <<"rStop", "", "nil">>
    /\ \E t \in 1..RThreads : pc[t] = "inonce"
    /\ watcher[TheRunner] = "done"
    /\ state[TheRunner] = "stopped"
    /\ sigterm[TheRunner] = 1
    /\ sigkill[TheRunner] = 1

\* C11: a Runner.Stop that found the Runner Running, the first one or a
\* later concurrent one, returns only once the process was reaped: at the
\* step in which it returns the state is Stopped.
C11_StopReturnsWhenStopped ==
    [][\A t \in 1..RThreads :
          (pc[t] = "inonce" /\ op[t] = "rStop" /\ pc'[t] = "idle") =>
              /\ state'[TheRunner] = "stopped"
              /\ proc'[TheRunner] = "reaped"]_vars

\* C11 witness: the process ended on the SIGTERM alone, one Stop that found
\* the Runner Running has returned and a second one is about to.
C11_Witness ==
    /\ last = <<"rStop", "", "nil">>
    /\ sigterm[TheRunner] = 1
    /\ sigkill[TheRunner] = 0
    /\ waitErr[TheRunner] = "signal"
    /\ state[TheRunner] = "stopped"
    /\ \E t \in 1..RThreads : pc[t] = "inonce" /\ op[t] = "rStop"

\* C13: a Runner.Stop made while the Runner is Initial, or when it is
\* already Stopped, returns nil at once, sends no signal and changes nothing
\* of the Runner: the state stays what it was and the one-shot gate is not
\* used up.
C13_StopIsNoopOutsideRunning ==
    [][\A t \in 1..RThreads :
          (RStop(t) /\ state[TheRunner] \in {"initial", "stopped"}) =>
              /\ pc'[t] = "idle"
              /\ last' = <<"rStop", "", "nil">>
              /\ UNCHANGED <<runnerVars, ctxDone>>]_vars

\* C13 witness: Stop was called before any Start and has returned nil; the
\* Runner is still Initial, no signal was sent, the gate is unused.
C13_Witness ==
    /\ last = <<"rStop", "", "nil">>
    /\ state[TheRunner] = "initial"
    /\ proc[TheRunner] = "nil"
    /\ stopOnce[TheRunner] = "idle"
    /\ sigterm[TheRunner] = 0

\* C14: a Runner.Start without a context returns ErrNilContext and one on a
\* Runner that is not Initial returns ErrAlreadyStarted, both at once and
\* without touching the Runner; so a process only ever comes to life from a
\* Runner that had none, and never a second time.
C14_StartRejected ==
    [][/\ \A t \in 1..RThreads, c \in {0, 1} :
            (RStart(t, c) /\ (c = 0 \/ state[TheRunner] # "initial")) =>
                /\ pc'[t] = "idle"
                /\ last' = <<"rStart", "",
                             IF c = 0 THEN "ErrNilContext"
                                      ELSE "ErrAlreadyStarted">>
                /\ UNCHANGED <<runnerVars, ctxDone>>
       /\ \A r \in Runners :
            (proc'[r] = "alive" /\ startPc'[r] # startPc[r]) =>
                /\ proc[r] \in {"nil", "failed"}
                /\ startPc[r] = "none"]_vars

\* C14 witness: while the Start that spawned the process is still blocked, a
\* second Start on the same Runner has returned ErrAlreadyStarted.
C14_Witness ==
    /\ last = <<"rStart", "", "ErrAlreadyStarted">>
    /\ state[TheRunner] = "running"
    /\ proc[TheRunner] = "alive"
    /\ \E t \in 1..RThreads : pc[t] = "instart"

\* C15: what the Runner.Start that spawned the process returns tells how the
\* process ended: with no Stop and no cancellation requested it is what
\* cmd.Wait reported (nil for exit code 0, the exit error otherwise); when
\* the process was killed by a signal of the stop sequence, or the context
\* is cancelled, it is context.Canceled, the same value for Stop and for
\* cancellation; the error of the killed process is never handed out.
C15_StartClassifiesOutcome ==
    [][\A r \in Runners :
          (startPc[r] = "ret" /\ startPc'[r] = "returned") =>
              /\ last'[1] = "rStart"
              /\ last'[3] \in {"nil", "exit", "Canceled"}
              /\ last'[3] \in {waitErr[r], "Canceled"}
              /\ (~stopped[r] /\ ~ctxDone[r]) => last'[3] = waitErr[r]
              /\ (waitErr[r] = "signal" \/ ctxDone[r]) =>
                     last'[3] = "Canceled"]_vars

\* C15 witness: the process was killed by the SIGTERM of a Stop, the context
\* was never cancelled, and Start has returned context.Canceled.
C15_Witness ==
    /\ last = <<"rStart", "", "Canceled">>
    /\ startPc[TheRunner] = "returned"
    /\ waitErr[TheRunner] = "signal"
    /\ ~ctxDone[TheRunner]
    /\ watcher[TheRunner] = "select"

\* C16: Runner.Wait returns only once the Runner is Stopped, and it returns
\* what the Start that spawned the process returned; stated here for a Wait
\* that returns right after that Start, for a process a Stop was requested
\* for while the context was left alone.
C16_WaitReturnsStartOutcome ==
    [][\A t \in 1..RThreads :
          RWait(t) =>
              /\ state[TheRunner] = "stopped"
              /\ (/\ last[1] = "rStart"
                  /\ last[3] \in {"nil", "exit", "signal", "Canceled"}
                  /\ startPc[TheRunner] = "returned"
                  /\ sigterm[TheRunner] = 1
                  /\ ~ctxDone[TheRunner]) =>
                     last'[3] = last[3]]_vars

\* C12: a process that does not end on SIGTERM is ended all the same: once
\* the stop sequence has begun on a Running Runner (by Stop or by
\* cancellation) the Runner becomes Stopped and every Stop that waits
\* returns; and if the sequence is over while the process is alive, the
\* SIGKILL was sent to the group.
C12_KillEscalates ==
    /\ [](\A r \in Runners :
             (stopOnce[r] = "done" /\ proc[r] = "alive") => sigkill[r] = 1)
    /\ (stopOnce[TheRunner] = "busy") ~> (state[TheRunner] = "stopped")
    /\ \A t \in 1..RThreads : (pc[t] = "inonce") ~> (pc[t] = "idle")

\* C12 witness: the SIGKILL was sent after the SIGTERM, the process died of
\* a signal, the Runner is Stopped and a Stop has returned nil, with the
\* context never cancelled.
C12_Witness ==
    /\ sigterm[TheRunner] = 1
    /\ sigkill[TheRunner] = 1
    /\ waitErr[TheRunner] = "signal"
    /\ state[TheRunner] = "stopped"
    /\ ~ctxDone[TheRunner]
    /\ last = <<"rStop", "", "nil">>
    /\ \A t \in 1..RThreads : pc[t] = "idle"

\* C17: when the context given to Runner.Start is cancelled while the Runner
\* is Running, the watcher goes through the same one-shot gate as Stop, the
\* Runner becomes Stopped and the blocked Start returns, with no Stop call
\* needed.
C17_CancelStopsRunner ==
    /\ [](\A r \in Runners : watcher[r] = "done" => stopOnce[r] # "idle")
    /\ (ctxDone[TheRunner] /\ state[TheRunner] = "running")
           ~> (state[TheRunner] = "stopped"
               /\ startPc[TheRunner] = "returned")

\* C17 witness: the context was cancelled, the watcher ran the stop sequence
\* (one SIGTERM), the process died of it, and Start has returned
\* context.Canceled while no call is in progress.
C17_Witness ==
    /\ ctxDone[TheRunner]
    /\ watcher[TheRunner] = "done"
    /\ sigterm[TheRunner] = 1
    /\ waitErr[TheRunner] = "signal"
    /\ state[TheRunner] = "stopped"
    /\ startPc[TheRunner] = "returned"
    /\ last = <<"rStart", "", "Canceled">>
    /\ \A t \in 1..RThreads : pc[t] = "idle"

\* C18: Manager.Start for an identifier the store does not know returns
\* (false, ErrCommandNotFound), and a Manager.Start that returns an error
\* leaves the registry, every Instance and every Runner as they were: no
\* Instance recorded, no background task launched, no process spawned.
C18_StartErrorChangesNothing ==
    [][\A t \in MThreads, id \in Ids \cup {UnknownId} :
          MStart(t, id) =>
              /\ id = UnknownId =>
                     last' = <<"Start", "false", "ErrCommandNotFound">>
              /\ last'[3] # "nil" =>
                     UNCHANGED <<instances, status, owner, task, runnerVars,
                                 ctxDone>>]_vars

\* C18 witness: with one command running, a Start for an unknown identifier
\* has returned ErrCommandNotFound.
C18_Witness ==
    /\ last = <<"Start", "false", "ErrCommandNotFound">>
    /\ instances[UnknownId] = NoInst
    /\ \E id \in Ids :
         /\ instances[id] # NoInst
         /\ status[instances[id]] = "running"
         /\ proc[instances[id]] = "alive"

\* C19: for an identifier with no recorded Instance (never started, or not
\* known to the store), Stop returns ErrNotRunning, Status returns
\* (not_started, ErrNotRunning), Output and OutputLastN return
\* (nil, ErrNotRunning), and none of them changes the registry, an Instance
\* or a Runner.
C19_NotRunningWithoutInstance ==
    [][\A t \in 1..SThreads, id \in Ids \cup {UnknownId} :
          instances[id] = NoInst =>
              /\ MStop(t, id) =>
                     /\ pc'[t] = "idle"
                     /\ last' = <<"Stop", "", "ErrNotRunning">>
              /\ MStatus(t, id) =>
                     last' = <<"Status", "not_started", "ErrNotRunning">>
              /\ \A o \in {"Output", "OutputLastN"} :
                     MOutput(t, id, o) => last' = <<o, "nil", "ErrNotRunning">>
              /\ (\/ MStop(t, id)
                  \/ MStatus(t, id)
                  \/ \E o \in {"Output", "OutputLastN"} : MOutput(t, id, o)) =>
                     UNCHANGED <<mgrVars, runnerVars, ctxDone>>]_vars

\* C19 witness: one command is running, another known identifier was never
\* started, and a Stop has returned ErrNotRunning.
C19_Witness ==
    /\ last = <<"Stop", "", "ErrNotRunning">>
    /\ \E id \in Ids : instances[id] = NoInst
    /\ \E id \in Ids :
         /\ instances[id] # NoInst
         /\ status[instances[id]] = "running"
         /\ proc[instances[id]] = "alive"

\* C20: once the Instance of an identifier is recorded Stopped, a
\* Manager.Stop for it returns nil at once and changes nothing: no context
\* is cancelled, no Runner is touched, no signal is sent, and the registry
\* and the Instance (its status, its buffer) stay as they are.
C20_StopOnStoppedIsNoop ==
    [][\A t \in MThreads, id \in Ids :
          (/\ MStop(t, id)
           /\ instances[id] # NoInst
           /\ status[instances[id]] = "stopped") =>
              /\ pc'[t] = "idle"
              /\ last' = <<"Stop", "", "nil">>
              /\ UNCHANGED <<mgrVars, runnerVars, ctxDone>>]_vars

\* C20 witness: a command ended on its own and was recorded Stopped; a Stop
\* for it has returned nil, and neither was its context cancelled nor a
\* signal sent.
C20_Witness ==
    /\ last = <<"Stop", "", "nil">>
    /\ \A u \in MThreads : pc[u] = "idle"
    /\ \E id \in Ids :
         /\ instances[id] # NoInst
         /\ status[instances[id]] = "stopped"
         /\ proc[instances[id]] = "reaped"
         /\ ~ctxDone[instances[id]]
         /\ sigterm[instances[id]] = 0
         /\ \A j \in Ids \ {id} : instances[j] = NoInst

\* ------------------------------------------------------------------------
\* buffer.RingBuffer (buffer/ringbuffer.go), used on its own.
\* A byte string is a sequence over Bytes; a line is a byte string.
\* ------------------------------------------------------------------------

MaxCap == 2         \* largest capacity a RingBuffer is built with
MaxWrite == 2       \* longest byte string one Write call is given
MaxStream == 5      \* most bytes written to one RingBuffer

\* "x" is an ordinary byte, "CR" is '\r', "LF" is '\n'
Bytes == {"x", "CR", "LF"}

\* the []byte arguments of Write
Chunks == UNION {[1..k -> Bytes] : k \in 0..MaxWrite}

MinOf(a, b) == IF a < b THEN a ELSE b

\* New: a RingBuffer of capacity empty slots, or ErrInvalidCapacity
New(capacity) ==
    IF capacity <= 0
    THEN [rb |-> [capacity |-> 0, lines |-> <<>>, head |-> 0, count |-> 0,
                  pending |-> <<>>],
          err |-> "ErrInvalidCapacity"]
    ELSE [rb |-> [capacity |-> capacity,
                  lines |-> [i \in 1..capacity |-> <<>>],
                  head |-> 0, count |-> 0, pending |-> <<>>],
          err |-> "nil"]

\* strings.Split(data, "\n"): the pieces between line feeds, at least one
RECURSIVE Split(_)
Split(data) ==
    IF \A i \in 1..Len(data) : data[i] # "LF"
    THEN <<data>>
    ELSE LET i == CHOOSE k \in 1..Len(data) :
                      /\ data[k] = "LF"
                      /\ \A j \in 1..(k - 1) : data[j] # "LF"
         IN  <<SubSeq(data, 1, i - 1)>> \o Split(SubSeq(data, i + 1, Len(data)))

\* strings.TrimSuffix(line, "\r"): at most one trailing carriage return goes
TrimSuffix(line) ==
    IF Len(line) > 0 /\ line[Len(line)] = "CR"
    THEN SubSeq(line, 1, Len(line) - 1)
    ELSE line

\* addLine stores the line in slot 0 and does not move head
addLineAtZero(rb, line) ==
    [rb EXCEPT !.lines[1] = line,
               !.count = IF rb.count < rb.capacity THEN rb.count + 1
                         ELSE rb.count]

\* addLine counts every line, also once all slots are taken
addLineCounting(rb, line) ==
    [rb EXCEPT !.lines[rb.head + 1] = line,
               !.head = (rb.head + 1) % rb.capacity,
               !.count = rb.count + 1]

\* addLine: the line goes to slot head, head advances, count saturates
addLine(rb, line) ==
    [rb EXCEPT !.lines[rb.head + 1] = line,
               !.head = (rb.head + 1) % rb.capacity,
               !.count = IF rb.count < rb.capacity THEN rb.count + 1
                         ELSE rb.count]

\* the loop of Write: parts[i], ..., parts[len(parts)-2] are added in order
RECURSIVE AddParts(_, _, _)
AddParts(rb, parts, i) ==
    IF i >= Len(parts)
    THEN rb
    ELSE AddParts(addLine(rb, TrimSuffix(parts[i])), parts, i + 1)

\* a Write that forgets the pending fragment
JoinedFresh(pending, p) == p

\* data := rb.pending + string(p)
Joined(pending, p) == pending \o p

\* a Write that reports no byte written
WrittenNone(p) == 0

\* return len(p), nil
Written(p) == Len(p)

\* Write: the buffer after the call and the (n, err) it returns
Write(rb, p) ==
    IF Len(p) = 0
    THEN [rb |-> rb, n |-> 0, err |-> "nil"]
    ELSE LET data == Joined(rb.pending, p)
             parts == Split(data)
             added == AddParts([rb EXCEPT !.pending = <<>>], parts, 1)
             lastPart == parts[Len(parts)]
         IN  [rb |-> IF lastPart # <<>>
                     THEN [added EXCEPT !.pending = lastPart]
                     ELSE added,
              n |-> Written(p),
              err |-> "nil"]

\* getLines reads from slot head on
StartAtHead(head, fromBuffer, capacity) == head % capacity

\* start := (rb.head - fromBuffer + rb.capacity) % rb.capacity
StartIndex(head, fromBuffer, capacity) ==
    (head - fromBuffer + capacity) % capacity

\* getLines: the last n entries of the stored lines followed by pending
getLines(rb, n) ==
    LET hasPending == rb.pending # <<>>
        available == rb.count + (IF hasPending THEN 1 ELSE 0)
        m == MinOf(n, available)
        fromBuffer == m - (IF hasPending THEN 1 ELSE 0)
        start == StartIndex(rb.head, fromBuffer, rb.capacity)
    IN  IF m <= 0
        THEN <<>>
        ELSE [i \in 1..fromBuffer |->
                  rb.lines[((start + i - 1) % rb.capacity) + 1]]
             \o (IF hasPending THEN <<rb.pending>> ELSE <<>>)

\* Lines: everything stored, and pending
Lines(rb) == getLines(rb, rb.capacity + 1)

\* LastN: nothing for n <= 0, else the last n entries
LastN(rb, n) == IF n <= 0 THEN <<>> ELSE getLines(rb, n)

\* the RingBuffer under study
RB ==
    [capacity |-> rbCap, lines |-> rbLines, head |-> rbHead,
     count |-> rbCount, pending |-> rbPending]

\* the fields of the RingBuffer become those of rb
Becomes(rb) ==
    /\ rbCap' = rb.capacity
    /\ rbLines' = rb.lines
    /\ rbHead' = rb.head
    /\ rbCount' = rb.count
    /\ rbPending' = rb.pending

\* everything but the RingBuffer
restVars == <<runnerVars, ctxDone, mgrVars, callerCtxDone, callVars, sdVars,
              out, got, storeVars>>

\* a caller writes p
BWrite(p) ==
    /\ rbCap > 0
    /\ Len(rbStream) + Len(p) <= MaxStream
    /\ LET w == Write(RB, p)
       IN  /\ Becomes(w.rb)
           /\ rbRet' = [op |-> "Write", n |-> w.n, lines |-> <<>>,
                        err |-> w.err]
    /\ rbStream' = rbStream \o p
    /\ UNCHANGED <<restVars, lockVars>>

\* a caller reads everything
BLines ==
    /\ rbCap > 0
    /\ rbRet' = [op |-> "Lines", n |-> 0, lines |-> Lines(RB), err |-> "nil"]
    /\ UNCHANGED <<rbCap, rbLines, rbHead, rbCount, rbPending, rbStream>>
    /\ UNCHANGED <<restVars, lockVars>>

\* a caller reads the last n entries
BLastN(n) ==
    /\ rbCap > 0
    /\ rbRet' = [op |-> "LastN", n |-> n, lines |-> LastN(RB, n),
                 err |-> "nil"]
    /\ UNCHANGED <<rbCap, rbLines, rbHead, rbCount, rbPending, rbStream>>
    /\ UNCHANGED <<restVars, lockVars>>

\* the arguments LastN is called with
Counts == (0 - 1)..(MaxCap + 2)

BufferInit ==
    /\ InitCommon
    /\ NoWriters
    /\ NoStore
    /\ state = [r \in Runners |-> "none"]
    /\ \E c \in 0..MaxCap :
          /\ New(c).err = "nil"
          /\ rbCap = New(c).rb.capacity
          /\ rbLines = New(c).rb.lines
          /\ rbHead = New(c).rb.head
          /\ rbCount = New(c).rb.count
          /\ rbPending = New(c).rb.pending
    /\ rbStream = <<>>
    /\ rbRet = NoReturn

BufferNext ==
    \/ \E p \in Chunks : BWrite(p)
    \/ BLines
    \/ \E n \in Counts : BLastN(n)

BufferSpec == BufferInit /\ [][BufferNext]_vars

\* the lines a byte stream completes: its pieces that a line feed ends,
\* each without the carriage return before that line feed
Completed(stream) ==
    LET parts == Split(stream)
    IN  [i \in 1..(Len(parts) - 1) |-> TrimSuffix(parts[i])]

\* the last k entries of a sequence
LastOf(seq, k) == SubSeq(seq, Len(seq) - k + 1, Len(seq))

\* C27: once the writes, however they were split into Write calls, have
\* delivered more than capacity newline-terminated lines, Lines() has exactly
\* capacity entries: the capacity most recently completed lines, in the
\* order they were written.
C27_LinesAreTheLatest ==
    (/\ rbCap > 0
     /\ Len(rbStream) > 0
     /\ rbStream[Len(rbStream)] = "LF"
     /\ Len(Completed(rbStream)) > rbCap)
    => /\ Len(Lines(RB)) = rbCap
       /\ Lines(RB) = LastOf(Completed(rbStream), rbCap)

\* C27: three lines went into a RingBuffer of capacity 2 and Lines()
\* returned the last two, which differ
C27_Witness ==
    /\ rbCap = 2
    /\ Len(rbStream) > 0
    /\ rbStream[Len(rbStream)] = "LF"
    /\ Len(Completed(rbStream)) > rbCap
    /\ rbRet.op = "Lines"
    /\ Len(rbRet.lines) = 2
    /\ rbRet.lines[1] # rbRet.lines[2]

\* C28: Write(a) followed by Write(b) leaves the RingBuffer with the same
\* Lines() as the single Write(a + b), whatever it held before and wherever
\* the split falls, between a carriage return and its line feed included.
C28_FragmentsReassemble ==
    rbCap > 0 =>
        \A a \in Chunks : \A b \in Chunks :
            Lines(Write(Write(RB, a).rb, b).rb) = Lines(Write(RB, a \o b).rb)

\* C28: a line was written in two pieces, split between its carriage return
\* and its line feed, and one line without either came out
C28_Witness ==
    /\ rbCap > 0
    /\ rbStream = <<"x", "CR", "LF">>
    /\ rbRet.op = "Write"
    /\ rbRet.n = 1
    /\ rbPending = <<>>
    /\ Lines(RB) = << <<"x">> >>

\* C29: in every state of the RingBuffer, LastN(n) is empty for n <= 0 and
\* is otherwise the last min(n, len(Lines())) entries of Lines(), in the
\* same order, after the storage has wrapped and with a pending fragment too.
C29_LastNIsTailOfLines ==
    rbCap > 0 =>
        \A n \in Counts :
            LastN(RB, n) =
                IF n <= 0 THEN <<>>
                ELSE LastOf(Lines(RB), MinOf(n, Len(Lines(RB))))

\* C29: the storage has wrapped, a fragment is pending, and LastN(2) returned
\* the newest stored line and the fragment
C29_Witness ==
    /\ rbCap = 2
    /\ Len(Completed(rbStream)) > rbCap
    /\ rbHead = 1
    /\ rbPending # <<>>
    /\ rbRet.op = "LastN"
    /\ rbRet.n = 2
    /\ rbRet.lines = <<rbLines[1], rbPending>>
    /\ Len(Lines(RB)) = 3

\* C30: a Write of no bytes returns (0, nil) and leaves head, count, pending
\* and the stored lines as they were; a Write of some bytes returns
\* (len(input), nil), never an error.
C30_WriteReturn ==
    [][\A p \in Chunks :
          BWrite(p) =>
              /\ rbRet'.err = "nil"
              /\ rbRet'.n = Len(p)
              /\ Len(p) = 0 =>
                    /\ rbRet'.n = 0
                    /\ UNCHANGED <<rbCap, rbLines, rbHead, rbCount, rbPending>>]_vars

\* C30: an empty Write returned (0, nil) on a RingBuffer that holds a line
\* and a fragment
C30_Witness ==
    /\ rbRet.op = "Write"
    /\ rbRet.n = 0
    /\ rbRet.err = "nil"
    /\ rbCount > 0
    /\ rbPending # <<>>

\* C21: once an Instance is stopped, on its own or by Stop, the lines its
\* process wrote stay as they are, and for as long as that Instance is the
\* one recorded under its identifier Output returns all of them and
\* OutputLastN(n) the last n of them, both without error.
C21_OutputRetained ==
    /\ [][\A r \in Runners :
             (status[r] = "stopped" \/ state[r] = "stopped")
                 => out'[r] = out[r]]_vars
    /\ [][\A t \in 1..SThreads, id \in Ids, n \in LastNs :
             (/\ instances[id] # NoInst
              /\ status[instances[id]] = "stopped")
             => /\ OutputCall(t, id, "Output", n) =>
                      /\ last' = <<"Output", "lines", "nil">>
                      /\ got' = out[instances[id]]
                /\ OutputCall(t, id, "OutputLastN", n) =>
                      /\ last' = <<"OutputLastN", "lines", "nil">>
                      /\ got' = IF n < out[instances[id]] THEN n
                                ELSE out[instances[id]]]_vars

\* C21: a process wrote a line and was stopped by Stop; afterwards Output
\* returned that line
C21_Witness ==
    \E id \in Ids :
        /\ instances[id] # NoInst
        /\ status[instances[id]] = "stopped"
        /\ proc[instances[id]] = "reaped"
        /\ sigterm[instances[id]] > 0
        /\ out[instances[id]] = 1
        /\ last = <<"Output", "lines", "nil">>
        /\ got = 1

\* C22: whenever r.Start has returned to the background task of an Instance,
\* after the process ended on its own, was stopped or cancelled, or because
\* it could not be spawned, the recorded status of that Instance becomes
\* Stopped in the end; and a status that is Stopped never is Running again.
C22_TaskEndMarksStopped ==
    /\ \A r \in Runners :
          (task[r] = "in" /\ (startPc[r] = "returned" \/ proc[r] = "failed"))
              ~> (status[r] = "stopped")
    /\ [][\A r \in Runners :
             status[r] = "stopped" => status'[r] = "stopped"]_vars

\* C22: the background task of one Instance is over after a spawn failure,
\* that of another after its process was signalled, and both are recorded
\* Stopped
C22_Witness ==
    \E r \in Runners, q \in Runners :
        /\ task[r] = "done" /\ proc[r] = "failed" /\ status[r] = "stopped"
        /\ task[q] = "done" /\ proc[q] = "reaped" /\ sigterm[q] > 0
        /\ status[q] = "stopped"

\* C23: Start does not wait for the process: a Start for a known identifier
\* without a Running Instance returns (true, nil) in the step that records
\* the new Instance as Running, when the process of that Instance has not
\* ended, and nothing makes the process end afterwards.
C23_StartDoesNotWait ==
    [][\A t \in 1..SThreads, id \in Ids :
          (/\ ~(instances[id] # NoInst /\ status[instances[id]] = "running")
           /\ MStart(t, id))
          => /\ pc'[t] = "idle"
             /\ last' = <<"Start", "true", "nil">>
             /\ instances'[id] # NoInst
             /\ instances'[id] # instances[id]
             /\ status'[instances'[id]] = "running"
             /\ proc'[instances'[id]] \notin {"exited", "reaped"}
             /\ ~waitDone'[instances'[id]]]_vars

\* C23: Start has returned (true, nil) and the process it launched is
\* running, neither signalled nor cancelled
C23_Witness ==
    /\ last = <<"Start", "true", "nil">>
    /\ \A t \in 1..SThreads : pc[t] = "idle"
    /\ \E id \in Ids :
         /\ instances[id] # NoInst
         /\ status[instances[id]] = "running"
         /\ proc[instances[id]] = "alive"
         /\ sigterm[instances[id]] = 0
         /\ ~ctxDone[instances[id]]

UnderLock ==
    \/ \E t \in MThreads, id \in Ids \cup {UnknownId} : MStart(t, id)
    \/ \E t \in MThreads, id \in Ids : MStop(t, id)
    \/ \E t \in MThreads, id \in Ids : MStatus(t, id)
    \/ \E r \in Runners : TaskFlip(r)

\* C25: no step taken with the registry lock held spawns a process, waits
\* for one to end, delivers a signal or waits out the grace period: such a
\* step leaves the processes, the signals sent, the one-shot gates, the
\* grace timers and the positions of the goroutines inside Runner.Start and
\* Runner.Stop as they were, and the goroutine that took it is not left
\* waiting inside the Runner.
C25_LockNotHeldWhileBlocking ==
    [][UnderLock =>
          /\ UNCHANGED <<proc, sigterm, sigkill, stopOnce, doStopPc, waitDone,
                         waitErr, exitErr, startPc, watcher, stopped>>
          /\ \A a \in Agents : pc'[a] = "inonce" => pc[a] = "inonce"]_vars

\* C25: one goroutine waits in Stop for a process that was sent SIGTERM and
\* still runs, while a second Instance has been recorded by a Start that
\* has returned
C25_Witness ==
    /\ \E a \in MThreads :
         /\ pc[a] = "inonce"
         /\ proc[inst[a]] = "alive"
         /\ sigterm[inst[a]] > 0
         /\ \E r \in Runners :
              /\ r > inst[a]
              /\ state[r] = "initial"
              /\ status[r] = "running"
    /\ last = <<"Start", "true", "nil">>

\* what is recorded under identifier id: the Instance, its status, its
\* Runner with its process and context, and the contents of its buffer
View(id) ==
    LET r == instances[id]
        none == r = NoInst
    IN  [inst |-> r,
         status |-> IF none THEN "none" ELSE status[r],
         state |-> IF none THEN "none" ELSE state[r],
         proc |-> IF none THEN "none" ELSE proc[r],
         gate |-> IF none THEN "none" ELSE stopOnce[r],
         signals |-> IF none THEN 0 ELSE sigterm[r] + sigkill[r],
         cancelled |-> IF none THEN FALSE ELSE ctxDone[r],
         ended |-> IF none THEN FALSE ELSE waitDone[r],
         buffer |-> IF none THEN 0 ELSE out[r]]

\* C26: Start, Stop, Status, Output and OutputLastN on one identifier, every
\* step of a Stop under way for it, and every step of its Runner, of its
\* process (exit, spawn failure, output) and of its background task leave
\* what is recorded under every other identifier as it was.
C26_InstancesIsolated ==
    [][/\ \A t \in 1..SThreads, id \in Ids :
             (\/ MStart(t, id)
              \/ MStop(t, id)
              \/ MStatus(t, id)
              \/ \E o \in {"Output", "OutputLastN"} : MOutput(t, id, o))
             => \A j \in Ids \ {id} : View(j)' = View(j)
       /\ \A a \in 1..SThreads :
             (MStopCancel(a) \/ MStopRunner(a) \/ RStopWait(a))
             => \A j \in Ids \ {arg[a]} : View(j)' = View(j)
       /\ \A r \in Runners :
             (RunnerSteps(r) \/ TaskCall(r) \/ TaskFlip(r) \/ ProcWrite(r))
             => \A j \in Ids \ {owner[r]} : View(j)' = View(j)]_vars

\* C26: the process of one identifier could not be spawned and its Instance
\* is recorded Stopped, while the Instance of another identifier is recorded
\* Running, its process runs and the line it wrote is in its buffer
C26_Witness ==
    \E i \in Ids, j \in Ids :
        /\ i # j
        /\ instances[i] # NoInst /\ instances[j] # NoInst
        /\ proc[instances[i]] = "failed"
        /\ status[instances[i]] = "stopped"
        /\ task[instances[i]] = "done"
        /\ proc[instances[j]] = "alive"
        /\ status[instances[j]] = "running"
        /\ sigterm[instances[j]] = 0
        /\ out[instances[j]] = 1

\* C31: in every state of a RingBuffer count lies in 0..capacity, head in
\* 0..capacity-1 and pending holds no line feed (it is what was written
\* since the last one); Lines() is the count most recently completed lines,
\* oldest first, followed by pending as one more entry exactly when pending
\* is not empty.
C31_BufferInvariant ==
    rbCap > 0 =>
        /\ rbCount \in 0..rbCap
        /\ rbHead \in 0..(rbCap - 1)
        /\ \A i \in 1..Len(rbPending) : rbPending[i] # "LF"
        /\ rbPending = Split(rbStream)[Len(Split(rbStream))]
        /\ rbCount = MinOf(Len(Completed(rbStream)), rbCap)
        /\ Lines(RB) = LastOf(Completed(rbStream), rbCount)
                       \o (IF rbPending # <<>> THEN <<rbPending>> ELSE <<>>)

\* C31: the storage of a RingBuffer of capacity 2 has wrapped, a fragment is
\* pending, and Lines() returned two lines and the fragment
C31_Witness ==
    /\ rbCap = 2
    /\ Len(Completed(rbStream)) > 2
    /\ rbCount = 2
    /\ rbPending # <<>>
    /\ rbRet.op = "Lines"
    /\ Len(rbRet.lines) = 3
    /\ rbRet.lines[3] = rbPending

\* ------------------------------------------------------------------------
\* One RingBuffer written and read by several goroutines at once.  Write is
\* followed statement by statement; rb.mu is held from its Lock to the
\* deferred Unlock (part_004:35-36), and Lines reads under RLock (76-77).
\* ------------------------------------------------------------------------

LinesEach == 2      \* the Write calls each writer makes

\* writer w writes lines of its own byte, the k-th of them k bytes long
WriterByte(w) == IF w = 1 THEN "p" ELSE IF w = 2 THEN "q" ELSE "r"
LineOf(w, k) == [i \in 1..k |-> WriterByte(w)]

\* the argument of the next Write of writer w: one whole line and its line feed
NextChunk(w) == LineOf(w, LinesEach - cLeft[w] + 1) \o <<"LF">>

\* a lock that lets everyone in
LockIgnored == TRUE

\* rb.mu can be taken: no Write holds it
Unlocked == cMu = 0

\* part_004:35-41  rb.mu.Lock(); data := rb.pending + string(p);
\* rb.pending = ""; parts := strings.Split(data, "\n")
WLock(w) ==
    /\ rbCap > 0
    /\ cPc[w] = "idle"
    /\ cLeft[w] > 0
    /\ Unlocked
    /\ cMu' = w
    /\ cParts' = [cParts EXCEPT ![w] = Split(Joined(rbPending, NextChunk(w)))]
    /\ rbPending' = <<>>
    /\ cI' = [cI EXCEPT ![w] = 1]
    /\ cPc' = [cPc EXCEPT ![w] = "loop"]
    /\ rbStream' = rbStream \o NextChunk(w)
    /\ UNCHANGED <<rbCap, rbLines, rbHead, rbCount, rbRet, cLeft, restVars>>

\* part_004:43-45 and 57  i < len(parts)-1: rb.lines[rb.head] = line
WStore(w) ==
    /\ cPc[w] = "loop"
    /\ cI[w] < Len(cParts[w])
    /\ rbLines' = [rbLines EXCEPT ![rbHead + 1] = TrimSuffix(cParts[w][cI[w]])]
    /\ cPc' = [cPc EXCEPT ![w] = "advance"]
    /\ UNCHANGED <<rbCap, rbHead, rbCount, rbPending, rbStream, rbRet, cMu,
                   cParts, cI, cLeft, restVars>>

\* part_004:58-61 and 43  head advances, count saturates, i++
WAdvance(w) ==
    /\ cPc[w] = "advance"
    /\ rbHead' = (rbHead + 1) % rbCap
    /\ rbCount' = IF rbCount < rbCap THEN rbCount + 1 ELSE rbCount
    /\ cI' = [cI EXCEPT ![w] = cI[w] + 1]
    /\ cPc' = [cPc EXCEPT ![w] = "loop"]
    /\ UNCHANGED <<rbCap, rbLines, rbPending, rbStream, rbRet, cMu, cParts,
                   cLeft, restVars>>

\* part_004:48-53  the loop is over: the last part becomes pending when it
\* is not empty, Write returns (len(p), nil) and the lock is released
WUnlock(w) ==
    /\ cPc[w] = "loop"
    /\ cI[w] >= Len(cParts[w])
    /\ rbPending' = IF cParts[w][Len(cParts[w])] # <<>>
                    THEN cParts[w][Len(cParts[w])]
                    ELSE rbPending
    /\ rbRet' = [op |-> "Write", n |-> Written(NextChunk(w)), lines |-> <<>>,
                 err |-> "nil"]
    /\ cMu' = 0
    /\ cPc' = [cPc EXCEPT ![w] = "idle"]
    /\ cLeft' = [cLeft EXCEPT ![w] = cLeft[w] - 1]
    /\ UNCHANGED <<rbCap, rbLines, rbHead, rbCount, rbStream, cParts, cI,
                   restVars>>

\* part_004:64-66 and 76-77  a reader calls Lines(), which holds the read
\* lock while it copies
CLines ==
    /\ rbCap > 0
    /\ Unlocked
    /\ rbRet' = [op |-> "Lines", n |-> 0, lines |-> Lines(RB), err |-> "nil"]
    /\ UNCHANGED <<rbCap, rbLines, rbHead, rbCount, rbPending, rbStream,
                   lockVars, restVars>>

ConcInit ==
    /\ InitCommon
    /\ NoStore
    /\ state = [r \in Runners |-> "none"]
    /\ \E c \in 0..MaxCap :
          /\ New(c).err = "nil"
          /\ rbCap = New(c).rb.capacity
          /\ rbLines = New(c).rb.lines
          /\ rbHead = New(c).rb.head
          /\ rbCount = New(c).rb.count
          /\ rbPending = New(c).rb.pending
    /\ rbStream = <<>>
    /\ rbRet = NoReturn
    /\ cMu = 0
    /\ cPc = [w \in Writers |-> "idle"]
    /\ cParts = [w \in Writers |-> <<>>]
    /\ cI = [w \in Writers |-> 0]
    /\ cLeft = [w \in Writers |-> LinesEach]

ConcNext ==
    \/ \E w \in Writers : WLock(w)
    \/ \E w \in Writers : WStore(w)
    \/ \E w \in Writers : WAdvance(w)
    \/ \E w \in Writers : WUnlock(w)
    \/ CLines

ConcSpec == ConcInit /\ [][ConcNext]_vars

\* every line any writer writes
AllLines == {LineOf(w, k) : w \in Writers, k \in 1..LinesEach}

\* how many Write calls have returned
RECURSIVE WrittenBy(_)
WrittenBy(w) ==
    IF w = 0 THEN 0 ELSE (LinesEach - cLeft[w]) + WrittenBy(w - 1)

\* a snapshot of whole lines: at most capacity entries, each one a line
\* some writer wrote, none twice
WholeLines(snap) ==
    /\ Len(snap) <= rbCap
    /\ \A i \in 1..Len(snap) : snap[i] \in AllLines
    /\ \A i \in 1..Len(snap), j \in 1..Len(snap) : snap[i] = snap[j] => i = j

\* C32: with writers that each write whole newline-terminated lines and
\* readers that call Lines() at any moment, every snapshot Lines() returns
\* has at most capacity entries, each exactly one line of one writer; and
\* whenever no Write is under way, after W lines written, Lines() has
\* exactly min(W, capacity) entries, the newest ones in the order in which
\* the writers took the lock.
C32_NoLineLostOrTorn ==
    rbCap > 0 =>
        /\ rbRet.op = "Lines" => WholeLines(rbRet.lines)
        /\ (\A w \in Writers : cPc[w] = "idle") =>
              /\ WholeLines(Lines(RB))
              /\ Len(Lines(RB)) = MinOf(WrittenBy(NWriters), rbCap)
              /\ Lines(RB) = LastOf(Completed(rbStream),
                                    MinOf(WrittenBy(NWriters), rbCap))

\* C32: both writers have written all their lines into a RingBuffer of
\* capacity 2, and Lines() returned one line of each
C32_Witness ==
    /\ rbCap = 2
    /\ \A w \in Writers : cLeft[w] = 0 /\ cPc[w] = "idle"
    /\ rbRet.op = "Lines"
    /\ Len(rbRet.lines) = 2
    /\ rbRet.lines[1][1] # rbRet.lines[2][1]

\* ------------------------------------------------------------------------
\* command.Store (command/store.go) over a Repository whose Save may fail.
\* A command is [id, text]; text stands for its name, command line and
\* working directory, "" for one of them being empty.
\* ------------------------------------------------------------------------

MaxCmds == 3        \* the identifiers Create hands out

Texts == {"a", "b"}

\* s.commands without its element i
RemoveAt(cmds, i) == SubSeq(cmds, 1, i - 1) \o SubSeq(cmds, i + 1, Len(cmds))

\* a Delete that puts the command back at the end
RestoredAtEnd(cmds, i, deleted) == cmds \o <<deleted>>

\* store.go, Delete after a failed Save: append(s.commands[:i], append([]Command{deleted},
\* s.commands[i:]...)...): deleted is back at index i
Restored(cmds, i, deleted) ==
    SubSeq(cmds, 1, i - 1) \o <<deleted>> \o SubSeq(cmds, i, Len(cmds))

\* the index of the first command with this id, 0 when there is none
\* (the loops of Get, Update and Delete)
IndexOf(cmds, id) ==
    IF \E i \in 1..Len(cmds) : cmds[i].id = id
    THEN CHOOSE i \in 1..Len(cmds) :
             /\ cmds[i].id = id
             /\ \A j \in 1..(i - 1) : cmds[j].id # id
    ELSE 0

\* what Repository.Save returns
SaveResult(saveOk) == IF saveOk THEN "nil" ELSE "SaveError"

\* Store.Create: the list after the call and the error returned
StoreCreate(cmds, id, text, saveOk) ==
    IF text = ""
    THEN [commands |-> cmds, err |-> "ErrEmpty"]
    ELSE LET appended == Append(cmds, [id |-> id, text |-> text])
         IN  IF saveOk
             THEN [commands |-> appended, err |-> "nil"]
             ELSE [commands |-> SubSeq(appended, 1, Len(appended) - 1),
                   err |-> SaveResult(saveOk)]

\* Store.Update
StoreUpdate(cmds, id, text, saveOk) ==
    LET i == IndexOf(cmds, id)
    IN  IF i = 0
        THEN [commands |-> cmds, err |-> "ErrNotFound"]
        ELSE LET existing == cmds[i]
                 updated == [cmds EXCEPT ![i] = [id |-> id, text |-> text]]
             IN  IF saveOk
                 THEN [commands |-> updated, err |-> "nil"]
                 ELSE [commands |-> [updated EXCEPT ![i] = existing],
                       err |-> SaveResult(saveOk)]

\* Store.Delete
StoreDelete(cmds, id, saveOk) ==
    LET i == IndexOf(cmds, id)
    IN  IF i = 0
        THEN [commands |-> cmds, err |-> "ErrNotFound"]
        ELSE LET deleted == cmds[i]
                 removed == RemoveAt(cmds, i)
             IN  IF saveOk
                 THEN [commands |-> removed, err |-> "nil"]
                 ELSE [commands |-> Restored(removed, i, deleted),
                       err |-> SaveResult(saveOk)]

\* Store.Get: the command found, as a list of one, and the error
StoreGet(cmds, id) ==
    LET i == IndexOf(cmds, id)
    IN  IF i = 0
        THEN [cmds |-> <<>>, err |-> "ErrNotFound"]
        ELSE [cmds |-> <<cmds[i]>>, err |-> "nil"]

\* everything but the Store
nonStoreVars == <<runnerVars, ctxDone, mgrVars, callerCtxDone, callVars,
                  sdVars, out, got, rbVars, lockVars>>

\* a caller creates a command; uuid.NewV7 hands out a new identifier
SCreate(text, saveOk) ==
    /\ stNext <= MaxCmds
    /\ LET c == StoreCreate(commands, stNext, text, saveOk)
       IN  /\ commands' = c.commands
           /\ stRet' = [op |-> "Create", id |-> stNext, err |-> c.err,
                        cmds |-> <<>>]
    /\ stNext' = IF text = "" THEN stNext ELSE stNext + 1
    /\ UNCHANGED nonStoreVars

SUpdate(id, text, saveOk) ==
    /\ LET u == StoreUpdate(commands, id, text, saveOk)
       IN  /\ commands' = u.commands
           /\ stRet' = [op |-> "Update", id |-> id, err |-> u.err,
                        cmds |-> <<>>]
    /\ UNCHANGED <<stNext, nonStoreVars>>

SDelete(id, saveOk) ==
    /\ LET d == StoreDelete(commands, id, saveOk)
       IN  /\ commands' = d.commands
           /\ stRet' = [op |-> "Delete", id |-> id, err |-> d.err,
                        cmds |-> <<>>]
    /\ UNCHANGED <<stNext, nonStoreVars>>

SGet(id) ==
    /\ stRet' = [op |-> "Get", id |-> id, err |-> StoreGet(commands, id).err,
                 cmds |-> StoreGet(commands, id).cmds]
    /\ UNCHANGED <<commands, stNext, nonStoreVars>>

\* Store.List returns a copy of s.commands
SList ==
    /\ stRet' = [op |-> "List", id |-> 0, err |-> "nil", cmds |-> commands]
    /\ UNCHANGED <<commands, stNext, nonStoreVars>>

StoreInit ==
    /\ InitCommon
    /\ NoRingBuffer
    /\ NoStore
    /\ state = [r \in Runners |-> "none"]

StoreNext ==
    \/ \E text \in Texts \cup {""}, saveOk \in BOOLEAN : SCreate(text, saveOk)
    \/ \E id \in 1..MaxCmds, text \in Texts, saveOk \in BOOLEAN :
          SUpdate(id, text, saveOk)
    \/ \E id \in 1..MaxCmds, saveOk \in BOOLEAN : SDelete(id, saveOk)
    \/ \E id \in 1..MaxCmds : SGet(id)
    \/ SList

StoreSpec == StoreInit /\ [][StoreNext]_vars

\* C40: a Create, Update or Delete during which the repository's Save fails
\* returns that error and leaves s.commands, contents and order, as it was
\* before the call, so that Get and List give afterwards what they gave
\* before.
C40_FailedSaveLeavesNoTrace ==
    [][(\/ \E text \in Texts : SCreate(text, FALSE)
        \/ \E id \in 1..MaxCmds : IndexOf(commands, id) # 0 /\
              (SDelete(id, FALSE) \/ \E text \in Texts : SUpdate(id, text, FALSE)))
       => /\ stRet'.err = "SaveError"
          /\ commands' = commands
          /\ \A id \in 1..MaxCmds :
                StoreGet(commands', id) = StoreGet(commands, id)]_vars

\* C40: a Delete of the first of three commands has failed in Save and the
\* three are listed in the order of their creation
C40_Witness ==
    /\ stRet.op = "Delete"
    /\ stRet.err = "SaveError"
    /\ stRet.id = 1
    /\ Len(commands) = 3
    /\ \A i \in 1..3 : commands[i].id = i

\* ------------------------------------------------------------------------
\* The HTTP handler that deletes a command definition (server/commands.go),
\* next to a client that starts and stops commands.
\* ------------------------------------------------------------------------

\* the goroutine that serves start and stop requests, and the one that
\* serves delete requests
Starter == 1
Deleter == 2

\* commands.go:117-121  status, err := api.manager.Status(id): a command
\* recorded Running is refused with 409 Conflict
HDeleteStatus(t, id) ==
    /\ Idle(t)
    /\ IF instances[id] # NoInst /\ status[instances[id]] = "running"
       THEN Done(t, "Delete", id, "", "Conflict")
       ELSE Goto(t, "Delete", id, NoInst, "hdelete")
    /\ UNCHANGED <<runnerVars, ctxDone, mgrVars, callerCtxDone, sdVars, bufVars>>

\* commands.go:123-133  err = api.store.Delete(id) and the response
HDeleteStore(t) ==
    /\ pc[t] = "hdelete"
    /\ \E saveOk \in BOOLEAN :
         LET d == StoreDelete(commands, arg[t], saveOk)
         IN  /\ commands' = d.commands
             /\ stRet' = [op |-> "Delete", id |-> arg[t], err |-> d.err,
                          cmds |-> <<>>]
             /\ Done(t, "Delete", arg[t], "",
                     IF d.err = "nil" THEN "NoContent"
                     ELSE IF d.err = "ErrNotFound" THEN "NotFound"
                     ELSE "InternalServerError")
    /\ UNCHANGED <<runnerVars, ctxDone, mgrVars, callerCtxDone, sdVars, out,
                   got, rbVars, lockVars, stNext>>

DeleteNext ==
    \/ ManagerSteps({Starter})
    \/ \E id \in Ids : MStart(Starter, id)
    \/ \E id \in Ids : MStop(Starter, id)
    \/ \E id \in Ids : HDeleteStatus(Deleter, id)
    \/ HDeleteStore(Deleter)

DeleteSpec == Init /\ [][DeleteNext]_vars

\* C33: the store holds the definition of every identifier whose Instance
\* is recorded Running, however delete requests and start requests for that
\* identifier interleave.
C33_RunningIsDefined ==
    \A id \in Ids :
        (instances[id] # NoInst /\ status[instances[id]] = "running")
            => \E i \in 1..Len(commands) : commands[i].id = id

\* C34: in the stop sequence of a Runner SIGTERM comes first; SIGKILL is
\* sent only after it, and only to a process that has not exited when the
\* grace period is over: a process that exited within the grace period is
\* never sent SIGKILL.
C34_KillOnlyIfStillAlive ==
    [][\A r \in Runners :
          /\ sigterm'[r] > sigterm[r] => sigkill[r] = 0
          /\ sigkill'[r] > sigkill[r] =>
                (sigterm[r] > 0 /\ proc[r] = "alive")]_vars

\* C36: once the process of a Runner has exited and been reaped, no SIGTERM
\* and no SIGKILL is sent to its process group any more, whether by Stop or
\* by the cancellation of the context.
C36_NoSignalAfterReap ==
    [][\A r \in Runners :
          proc[r] = "reaped" =>
              (sigterm'[r] = sigterm[r] /\ sigkill'[r] = sigkill[r])]_vars

\* C37: once Runner.Start has returned, also after a failure to spawn, Wait
\* returns in the end: the channel Wait blocks on gets closed.
C37_WaitReturnsAfterStart ==
    (startPc[TheRunner] = "returned" \/ proc[TheRunner] = "failed")
        ~> waitDone[TheRunner]

\* C35: whenever the recorded status of an Instance is Stopped, the process
\* of that Instance is not alive: it has ended or was never spawned.  The
\* status may lag behind the process but is never Stopped for a live one.
C35_StoppedMeansNotAlive ==
    \A r \in Runners :
        (owner[r] # UnknownId /\ status[r] = "stopped") => proc[r] # "alive"

\* C35: one Instance is recorded Stopped after its process was reaped while
\* another is still recorded Running although its process has ended
C35_Witness ==
    \E r, q \in Runners :
        /\ owner[r] # UnknownId /\ status[r] = "stopped"
        /\ proc[r] = "reaped"
        /\ owner[q] # UnknownId /\ status[q] = "running"
        /\ proc[q] \in {"exited", "reaped"}

\* C39: Start(id) on an identifier whose recorded Instance is Stopped
\* returns (true, nil) and records a new Instance, Running, with a new Runner
\* and an empty buffer; Output(id) returns the lines of the recorded
\* Instance only, so none of the previous run; and a background task that
\* has not finished belongs to the Instance recorded under its identifier,
\* so the completion of a previous run cannot mark the new Instance.
C39_RestartReplaces ==
    /\ [][\A t \in 1..SThreads, id \in Ids :
             (/\ instances[id] # NoInst
              /\ status[instances[id]] = "stopped"
              /\ MStart(t, id))
             => /\ last' = <<"Start", "true", "nil">>
                /\ instances'[id] \notin {NoInst, instances[id]}
                /\ state[instances'[id]] = "none"
                /\ status'[instances'[id]] = "running"
                /\ out'[instances'[id]] = 0
                /\ task[instances[id]] = "done"]_vars
    /\ [][\A t \in 1..SThreads, id \in Ids, n \in LastNs :
             (instances[id] # NoInst /\ OutputCall(t, id, "Output", n))
                 => got' = out[instances[id]]]_vars
    /\ [](\A r \in Runners :
             task[r] \in {"call", "in"} => instances[owner[r]] = r)

\* C39: a command whose first run wrote a line was started again; Output
\* then returned no line while the new run had written none
C39_Witness ==
    \E id \in Ids, r, q \in Runners :
        /\ r # q
        /\ owner[r] = id /\ owner[q] = id
        /\ instances[id] = q
        /\ out[r] = 1 /\ out[q] = 0
        /\ task[r] = "done"
        /\ last = <<"Output", "lines", "nil">>
        /\ got = 0

\* ------------------------------------------- the reads of inst.status
\* Stop and Status look the Instance up under the read lock, release the
\* lock and read inst.status afterwards; the background task writes the
\* field under the write lock.  Here the lookup and the read are the two
\* steps they are in the code.

\* manager.go:171-177  Status(id): the lookup under m.mu.RLock and the
\* return for an identifier without Instance
StatusLookup(t, id) ==
    /\ Idle(t)
    /\ IF instances[id] = NoInst
       THEN Done(t, "Status", id, "not_started", "ErrNotRunning")
       ELSE Goto(t, "Status", id, instances[id], "sread")
    /\ UNCHANGED <<runnerVars, ctxDone, mgrVars, callerCtxDone, sdVars, bufVars>>

\* manager.go:179  return inst.status, nil   (m.mu is not held)
StatusRead(t) ==
    /\ pc[t] = "sread"
    /\ op[t] = "Status"
    /\ Done(t, "Status", arg[t], status[inst[t]], "nil")
    /\ UNCHANGED <<runnerVars, ctxDone, mgrVars, callerCtxDone, sdVars, bufVars>>

\* manager.go:128-134  Stop(id): the lookup under m.mu.RLock and the return
\* for an identifier without Instance
StopFind(t, id) ==
    /\ Idle(t)
    /\ IF instances[id] = NoInst
       THEN Done(t, "Stop", id, "", "ErrNotRunning")
       ELSE Goto(t, "Stop", id, instances[id], "sread")
    /\ UNCHANGED <<runnerVars, ctxDone, mgrVars, callerCtxDone, sdVars, bufVars>>

\* manager.go:136-138  if inst.status == StatusStopped { return nil }
\* (m.mu is not held)
StopStatusRead(t) ==
    /\ pc[t] = "sread"
    /\ op[t] = "Stop"
    /\ IF status[inst[t]] = "stopped"
       THEN Done(t, "Stop", arg[t], "", "nil")
       ELSE Step(t, "mcancel")
    /\ UNCHANGED <<runnerVars, ctxDone, mgrVars, callerCtxDone, sdVars, bufVars>>

\* manager.go:117-121  the background task of r is about to take m.mu and
\* write the status of its Instance
WritePending(r) ==
    /\ task[r] = "in"
    /\ \/ startPc[r] = "returned"
       \/ proc[r] = "failed"

RaceNext ==
    \/ ManagerSteps(1..SThreads)
    \/ \E t \in 1..SThreads, id \in Ids : MStart(t, id)
    \/ \E t \in 1..SThreads, id \in Ids : StatusLookup(t, id)
    \/ \E t \in 1..SThreads : StatusRead(t)
    \/ \E t \in 1..SThreads, id \in Ids : StopFind(t, id)
    \/ \E t \in 1..SThreads : StopStatusRead(t)

RaceSpec == Init /\ [][RaceNext]_vars

\* C38: every read and every write of the recorded status of an Instance
\* happens with the lock of the registry held, so that no Status or Stop is
\* about to read the status, the lock released, while the background task
\* is about to write Stopped into it.
C38_StatusReadUnderLock ==
    \A t \in 1..SThreads :
        pc[t] = "sread" => ~WritePending(inst[t])

====
